---- MODULE Spec2Model ----
(***************************************************************************)
(* Block verification of chain/src/verifier/mod.rs: the BlockVerifier      *)
(* trait (verify_block, verify_blacklisted_txns, verify_uncles,            *)
(* can_be_uncle), StaticVerifier and the Basic, Consensus, Full, None and  *)
(* Dag strategies.  One run of the machine is one call of verify_block on  *)
(* a candidate block against a chain reader snapshot.                      *)
(***************************************************************************)
EXTENDS Integers, Sequences, FiniteSets, TLC

VARIABLES verifier, reader, block, blacklist, pc, log, calls, result,
          uncle_idx, uncle_ids, input, parsed,
          chan, counter, senders, rx, sends, last,
          sync, sync_pc, absent_pos, sync_calls, sync_result,
          event_peers, handler, task, asked, blocks_from

\* the string given to Verifier::from_str and what it returned
parse_vars == <<input, parsed>>

\* one call of verify_block
verify_vars == <<verifier, reader, block, blacklist, pc, log, calls, result,
                 uncle_idx, uncle_ids>>

\* one metered channel: the inner futures channel, the counters of its key,
\* each sender's position, the receiver's position, the results of the send
\* operations so far and the last value the receiver got
chan_vars == <<chan, counter, senders, rx, sends, last>>

\* one call of InnerSyncTask::do_sync: what its collaborators will answer, its
\* position, the position of the absent-block iterator, the calls made so
\* far and what do_sync returned
sync_vars == <<sync, sync_pc, absent_pos, sync_calls, sync_result>>

\* one SyncBodyEvent handled by DownloadBodyActor: what each peer of
\* event.peers will answer, what the handler returned, the spawned task's
\* position, the peers asked so far and the peers whose bodies went to do_blocks
body_vars == <<event_peers, handler, task, asked, blocks_from>>

vars == <<verify_vars, parse_vars, chan_vars, sync_vars, body_vars>>

(***************************************************************************)
(* Bounds.  u64 values (block numbers, timestamps, gas) are modelled as    *)
(* 0..MaxU with MaxU standing for u64::MAX; saturating arithmetic          *)
(* saturates at MaxU.                                                      *)
(***************************************************************************)
MaxU == 3

MaxUncles == 2

MaxParents == 3

U64 == 0..MaxU

\* u64::saturating_add
saturating_add(a, b) == IF a + b > MaxU THEN MaxU ELSE a + b

\* starcoin_types::block::ALLOWED_FUTURE_BLOCKTIME, scaled to the model's u64
ALLOWED_FUTURE_BLOCKTIME == 1

(***************************************************************************)
(* Results: anyhow::Result<()>.  An error is either                        *)
(* ConnectBlockError::VerifyBlockFailed(field, _) or an opaque error that  *)
(* is no ConnectBlockError; `field` of an opaque error names its origin.   *)
(***************************************************************************)
Ok == [kind |-> "Ok", field |-> ""]

\* the verify_block! macro's failure value
VerifyBlockFailed(field) == [kind |-> "VerifyBlockFailed", field |-> field]

\* mutant of OpaqueError: a reader error turned into a verification failure
ReportedAsHeader(origin) == VerifyBlockFailed("Header")

\* an error propagated by `?` or built by format_err!
OpaqueError(origin) == [kind |-> "Error", field |-> origin]

IsOk(res) == res.kind = "Ok"

\* the value of one operation: its result and the reader calls it made
Ret(res, cs) == [res |-> res, calls |-> cs]

Call(op, arg) == [op |-> op, arg |-> arg]

(***************************************************************************)
(* Data.  HashValue is a small set of naturals (ordered, as HashValue      *)
(* is Ord).  Option<T> is a record [some, v].                              *)
(***************************************************************************)
Hashes == {1, 2, 3, 4, 5}

Some(v) == [some |-> TRUE, v |-> v]

None == [some |-> FALSE, v |-> <<>>]

\* Option<Vec<_>>::unwrap_or_default
unwrap_or_default(opt) == IF opt.some THEN opt.v ELSE <<>>

(***************************************************************************)
(* The ChainReader answers consumed by the verifier.  A reader is a record *)
(*   head         : the head BlockHeader (id, number, timestamp)           *)
(*   epoch        : start/end block number, max uncles, gas limit          *)
(*   now          : time_service().now_millis()                            *)
(*   infos        : get_block_info per id: Some(root) / None / Err         *)
(*   chain_type   : check_chain_type(): "Single" / "Dag" / "Err"           *)
(*   exist        : exist_block per id: "true" / "false" / "err"           *)
(*   epoch_uncles : the keys of epoch_uncles()                             *)
(*   dag          : has_dag_block per id: "true" / "false" / "err"         *)
(*   strategy     : epoch().strategy().verify(reader, header) per header   *)
(*                  id: "Ok" / "ConsensusVerifyError" / "Other"            *)
(*   forks        : fork per id: [ok, head], the head of the forked view   *)
(***************************************************************************)
status_head(r) == r.head

current_header(r) == r.head

get_block_info(r, id) == r.infos[id]

\* ChainReader::fork: a view of the same chain whose head is the block asked for
fork(r, id) == [r EXCEPT !.head = r.forks[id].head]

(***************************************************************************)
(* BasicVerifier::verify_header, check by check.                           *)
(***************************************************************************)
\* check 1: expect_number == new_block_header.number()
HeightContinuity(current, h) == saturating_add(current.number, 1) = h.number

\* check 2: current_id == new_block_parent
ParentLinkage(current, h) == current.id = h.parent_hash

\* mutant of TimestampAfterParent: >= for >
TimestampAfterParent_or_equal(current, h) == h.timestamp >= current.timestamp

\* check 3: new_block_header.timestamp() > current.timestamp()
TimestampAfterParent(current, h) == h.timestamp > current.timestamp

\* check 4: timestamp <= ALLOWED_FUTURE_BLOCKTIME.saturating_add(now)
TimestampNotTooNew(now, h) ==
    h.timestamp <= saturating_add(ALLOWED_FUTURE_BLOCKTIME, now)

\* check 5: number > epoch.start_block_number && number <= epoch.end_block_number
EpochWindow(epoch, h) ==
    h.number > epoch.start_block_number /\ h.number <= epoch.end_block_number

\* check 6: gas_used <= block_gas_limit
GasBound(epoch, h) == h.gas_used <= epoch.block_gas_limit

\* check 7: the head's block accumulator root equals the header's
AccumulatorContinuity(info, h) == info.root = h.block_accumulator_root

\* check 8 (second conjunct): parents_hash().unwrap_or_default().is_empty()
NoParentsHash(h) == Len(unwrap_or_default(h.parents_hash)) = 0

\* mutant of SingleChainShape: either conjunct is enough
SingleChainShape_either(chain_type, h) == chain_type = "Single" \/ NoParentsHash(h)

\* check 8: check_chain_type()? == ChainType::Single && parents_hash is empty
SingleChainShape(chain_type, h) == chain_type = "Single" /\ NoParentsHash(h)

\* mutant of Basic_verify_header: the head's block info and the chain type
\* are fetched before the first check
Basic_verify_header_lookup_first(r, h) ==
    LET current == status_head(r)
        epoch   == r.epoch
        info    == get_block_info(r, current.id)
        c2 == <<Call("status", 0), Call("get_block_info", current.id)>>
        c3 == Append(c2, Call("check_chain_type", 0))
        c4 == Append(c3, Call("now_millis", 0))
        c5 == Append(c4, Call("epoch", 0))
    IN  IF info.kind = "Err" THEN Ret(OpaqueError("get_block_info"), c2)
        ELSE IF info.kind = "None" THEN Ret(OpaqueError("Can not find block info"), c2)
        ELSE IF r.chain_type = "Err" THEN Ret(OpaqueError("check_chain_type"), c3)
        ELSE IF ~HeightContinuity(current, h) THEN Ret(VerifyBlockFailed("Header"), c3)
        ELSE IF ~ParentLinkage(current, h) THEN Ret(VerifyBlockFailed("Header"), c3)
        ELSE IF ~TimestampAfterParent(current, h)
            THEN Ret(VerifyBlockFailed("Header"), c3)
        ELSE IF ~TimestampNotTooNew(r.now, h) THEN Ret(VerifyBlockFailed("Header"), c4)
        ELSE IF ~EpochWindow(epoch, h) THEN Ret(VerifyBlockFailed("Header"), c5)
        ELSE IF ~GasBound(epoch, h) THEN Ret(VerifyBlockFailed("Header"), c5)
        ELSE IF ~AccumulatorContinuity(info, h)
            THEN Ret(VerifyBlockFailed("Header"), c5)
        ELSE IF ~SingleChainShape(r.chain_type, h)
            THEN Ret(VerifyBlockFailed("Header"), c5)
        ELSE Ret(Ok, c5)

Basic_verify_header(r, h) ==
    LET current == status_head(r)
        epoch   == r.epoch
        info    == get_block_info(r, current.id)
        c1 == <<Call("status", 0)>>
        c4 == Append(c1, Call("now_millis", 0))
        c5 == Append(c4, Call("epoch", 0))
        c7 == Append(c5, Call("get_block_info", current.id))
        c8 == Append(c7, Call("check_chain_type", 0))
    IN  IF ~HeightContinuity(current, h) THEN Ret(VerifyBlockFailed("Header"), c1)
        ELSE IF ~ParentLinkage(current, h) THEN Ret(VerifyBlockFailed("Header"), c1)
        ELSE IF ~TimestampAfterParent(current, h)
            THEN Ret(VerifyBlockFailed("Header"), c1)
        ELSE IF ~TimestampNotTooNew(r.now, h) THEN Ret(VerifyBlockFailed("Header"), c4)
        ELSE IF ~EpochWindow(epoch, h) THEN Ret(VerifyBlockFailed("Header"), c5)
        ELSE IF ~GasBound(epoch, h) THEN Ret(VerifyBlockFailed("Header"), c5)
        ELSE IF info.kind = "Err" THEN Ret(OpaqueError("get_block_info"), c7)
        ELSE IF info.kind = "None" THEN Ret(OpaqueError("Can not find block info"), c7)
        ELSE IF ~AccumulatorContinuity(info, h)
            THEN Ret(VerifyBlockFailed("Header"), c7)
        ELSE IF r.chain_type = "Err" THEN Ret(OpaqueError("check_chain_type"), c8)
        ELSE IF ~SingleChainShape(r.chain_type, h)
            THEN Ret(VerifyBlockFailed("Header"), c8)
        ELSE Ret(Ok, c8)

\* mutant of Consensus_verify_header: every strategy error wrapped as Consensus
Consensus_verify_header_wrap_all(r, h) ==
    LET cs == <<Call("epoch", 0), Call("strategy.verify", h.id)>>
    IN  IF r.strategy[h.id] = "Ok" THEN Ret(Ok, cs)
        ELSE Ret(VerifyBlockFailed("Consensus"), cs)

\* mutant of Consensus_verify_header: no downcast, the error returned as it is
Consensus_verify_header_no_downcast(r, h) ==
    LET cs == <<Call("epoch", 0), Call("strategy.verify", h.id)>>
    IN  IF r.strategy[h.id] = "Ok" THEN Ret(Ok, cs)
        ELSE Ret(OpaqueError("strategy.verify"), cs)

(***************************************************************************)
(* ConsensusVerifier::verify_header: the epoch's strategy decides; a       *)
(* ConsensusVerifyError is wrapped, any other error is returned as it is.  *)
(***************************************************************************)
Consensus_verify_header(r, h) ==
    LET cs == <<Call("epoch", 0), Call("strategy.verify", h.id)>>
        e  == r.strategy[h.id]
    IN  IF e = "Ok" THEN Ret(Ok, cs)
        ELSE IF e = "ConsensusVerifyError"
            THEN Ret(VerifyBlockFailed("Consensus"), cs)
        ELSE Ret(OpaqueError("strategy.verify"), cs)

\* mutant of Full_verify_header: the consensus check first
Full_verify_header_consensus_first(r, h) ==
    LET basic == Basic_verify_header(r, h)
        cons  == Consensus_verify_header(r, h)
    IN  IF ~IsOk(cons.res) THEN cons
        ELSE Ret(basic.res, cons.calls \o basic.calls)

\* FullVerifier::verify_header
Full_verify_header(r, h) ==
    LET basic == Basic_verify_header(r, h)
        cons  == Consensus_verify_header(r, h)
    IN  IF ~IsOk(basic.res) THEN basic
        ELSE Ret(cons.res, basic.calls \o cons.calls)

\* NoneVerifier::verify_header
None_verify_header(r, h) == Ret(Ok, <<>>)

(***************************************************************************)
(* DagVerifier::verify_header.                                             *)
(***************************************************************************)
RECURSIVE insert_sorted(_, _)
insert_sorted(x, s) ==
    IF Len(s) = 0 THEN <<x>>
    ELSE IF x <= Head(s) THEN <<x>> \o s
    ELSE <<Head(s)>> \o insert_sorted(x, Tail(s))

\* Vec::sort
RECURSIVE sort(_)
sort(s) == IF Len(s) = 0 THEN <<>> ELSE insert_sorted(Head(s), sort(Tail(s)))

\* Vec::dedup: removes consecutive repeated elements
RECURSIVE dedup(_)
dedup(s) ==
    IF Len(s) <= 1 THEN s
    ELSE IF s[1] = s[2] THEN dedup(Tail(s))
    ELSE <<s[1]>> \o dedup(Tail(s))

\* mutant of parents_hash_to_check: dedup without the sort
parents_hash_to_check_unsorted(h) == dedup(unwrap_or_default(h.parents_hash))

\* parents_hash_to_check: the clone, sorted and deduped
parents_hash_to_check(h) == dedup(sort(unwrap_or_default(h.parents_hash)))

contains(s, x) == \E i \in 1..Len(s) : s[i] = x

\* first verify_block! of DagVerifier::verify_header
ParentsShape(h) ==
    /\ Len(parents_hash_to_check(h)) # 0
    /\ Len(unwrap_or_default(h.parents_hash)) = Len(parents_hash_to_check(h))

\* mutant of has_dag_block_checked: the storage error propagated by ?
has_dag_block_unmapped(answer) ==
    IF answer = "err" THEN OpaqueError("has_dag_block")
    ELSE IF answer = "false" THEN VerifyBlockFailed("Header")
    ELSE Ok

\* the closure of the try_for_each: has_dag_block's error is mapped to
\* VerifyBlockFailed(Header, _), and so is the answer false
has_dag_block_checked(answer) ==
    IF answer = "err" THEN VerifyBlockFailed("Header")
    ELSE IF answer = "false" THEN VerifyBlockFailed("Header")
    ELSE Ok

\* the try_for_each over parents_hash_to_check, from position i on
RECURSIVE check_dag_parents(_, _, _, _)
check_dag_parents(r, ps, i, cs) ==
    IF i > Len(ps) THEN Ret(Ok, cs)
    ELSE LET cs1 == Append(cs, Call("has_dag_block", ps[i]))
         IN  IF ~IsOk(has_dag_block_checked(r.dag[ps[i]]))
             THEN Ret(has_dag_block_checked(r.dag[ps[i]]), cs1)
             ELSE check_dag_parents(r, ps, i + 1, cs1)

\* mutant of Dag_verify_header: the Basic checks applied first, as in FullVerifier
Dag_verify_header_after_basic(r, h) ==
    LET basic == Basic_verify_header(r, h)
        ps    == parents_hash_to_check(h)
        info  == get_block_info(r, h.parent_hash)
        c2    == Append(basic.calls, Call("get_block_info", h.parent_hash))
        dag   == check_dag_parents(r, ps, 1, c2)
        cons  == Consensus_verify_header(r, h)
    IN  IF ~IsOk(basic.res) THEN basic
        ELSE IF ~ParentsShape(h) THEN Ret(VerifyBlockFailed("Header"), basic.calls)
        ELSE IF ~contains(ps, h.parent_hash)
            THEN Ret(VerifyBlockFailed("Header"), basic.calls)
        ELSE IF info.kind = "Err" THEN Ret(OpaqueError("get_block_info"), c2)
        ELSE IF info.kind = "None" THEN Ret(VerifyBlockFailed("Header"), c2)
        ELSE IF ~IsOk(dag.res) THEN dag
        ELSE Ret(cons.res, dag.calls \o cons.calls)

Dag_verify_header(r, h) ==
    LET ps   == parents_hash_to_check(h)
        info == get_block_info(r, h.parent_hash)
        c2   == <<Call("get_block_info", h.parent_hash)>>
        dag  == check_dag_parents(r, ps, 1, c2)
        cons == Consensus_verify_header(r, h)
    IN  IF ~ParentsShape(h) THEN Ret(VerifyBlockFailed("Header"), <<>>)
        ELSE IF ~contains(ps, h.parent_hash) THEN Ret(VerifyBlockFailed("Header"), <<>>)
        ELSE IF info.kind = "Err" THEN Ret(OpaqueError("get_block_info"), c2)
        ELSE IF info.kind = "None" THEN Ret(VerifyBlockFailed("Header"), c2)
        ELSE IF ~IsOk(dag.res) THEN dag
        ELSE Ret(cons.res, dag.calls \o cons.calls)

\* Self::verify_header of strategy v
verify_header(v, r, h) ==
    CASE v = "Basic" -> Basic_verify_header(r, h)
      [] v = "Consensus" -> Consensus_verify_header(r, h)
      [] v = "Full" -> Full_verify_header(r, h)
      [] v = "Dag" -> Dag_verify_header(r, h)
      [] OTHER -> None_verify_header(r, h)

(***************************************************************************)
(* StaticVerifier and the default methods of BlockVerifier.                *)
(***************************************************************************)
\* BlockBody::hash: a collision-free digest of the transaction list
RECURSIVE body_hash_of(_)
body_hash_of(body) ==
    IF Len(body) = 0 THEN 0
    ELSE 3 * body_hash_of(SubSeq(body, 1, Len(body) - 1)) + body[Len(body)].sender

\* mutant of verify_body_hash: the comparison inverted
verify_body_hash_inverted(b) ==
    IF body_hash_of(b.body) # b.header.body_hash THEN Ok
    ELSE VerifyBlockFailed("Body")

\* StaticVerifier::verify_body_hash
verify_body_hash(b) ==
    IF body_hash_of(b.body) = b.header.body_hash THEN Ok
    ELSE VerifyBlockFailed("Body")

\* AddressFilter::is_blacklisted(txn, block_number)
is_blacklisted(bl, txn, block_number) == txn.sender \in bl

\* mutant of verify_blacklisted_txns: only the first transaction is looked at
verify_blacklisted_txns_first_only(bl, b) ==
    IF Len(b.body) > 0 /\ is_blacklisted(bl, b.body[1], b.header.number)
    THEN VerifyBlockFailed("Body")
    ELSE Ok

\* BlockVerifier::verify_blacklisted_txns
verify_blacklisted_txns(bl, b) ==
    IF \E i \in 1..Len(b.body) : is_blacklisted(bl, b.body[i], b.header.number)
    THEN VerifyBlockFailed("Body")
    ELSE Ok

\* mutant of can_be_uncle: the last comparison strict
can_be_uncle_strict(r, u) ==
    LET epoch == r.epoch
        c0 == <<Call("epoch", 0), Call("epoch_uncles", 0)>>
        c1 == Append(c0, Call("exist_block", u.parent_hash))
        c2 == Append(c1, Call("exist_block", u.id))
        c3 == Append(c2, Call("current_header", 0))
        No(cs)  == [res |-> Ok, value |-> FALSE, calls |-> cs]
        Bad(cs) == [res |-> OpaqueError("exist_block"), value |-> FALSE, calls |-> cs]
    IN  IF ~(epoch.start_block_number <= u.number) THEN No(c0)
        ELSE IF ~(epoch.end_block_number > u.number) THEN No(c0)
        ELSE IF r.exist[u.parent_hash] = "err" THEN Bad(c1)
        ELSE IF ~(r.exist[u.parent_hash] = "true") THEN No(c1)
        ELSE IF r.exist[u.id] = "err" THEN Bad(c2)
        ELSE IF ~(r.exist[u.id] = "false") THEN No(c2)
        ELSE IF ~(u.id \notin r.epoch_uncles) THEN No(c2)
        ELSE IF ~(u.number < current_header(r).number) THEN No(c3)
        ELSE [res |-> Ok, value |-> TRUE, calls |-> c3]

\* BlockVerifier::can_be_uncle: [res, value, calls]; && evaluates left to right
\* and stops at the first false operand, ? returns the reader's error
can_be_uncle(r, u) ==
    LET epoch == r.epoch
        c0 == <<Call("epoch", 0), Call("epoch_uncles", 0)>>
        c1 == Append(c0, Call("exist_block", u.parent_hash))
        c2 == Append(c1, Call("exist_block", u.id))
        c3 == Append(c2, Call("current_header", 0))
        No(cs)  == [res |-> Ok, value |-> FALSE, calls |-> cs]
        Bad(cs) == [res |-> OpaqueError("exist_block"), value |-> FALSE, calls |-> cs]
    IN  IF ~(epoch.start_block_number <= u.number) THEN No(c0)
        ELSE IF ~(epoch.end_block_number > u.number) THEN No(c0)
        ELSE IF r.exist[u.parent_hash] = "err" THEN Bad(c1)
        ELSE IF ~(r.exist[u.parent_hash] = "true") THEN No(c1)
        ELSE IF r.exist[u.id] = "err" THEN Bad(c2)
        ELSE IF ~(r.exist[u.id] = "false") THEN No(c2)
        ELSE IF ~(u.id \notin r.epoch_uncles) THEN No(c2)
        ELSE IF ~(u.number <= current_header(r).number) THEN No(c3)
        ELSE [res |-> Ok, value |-> TRUE, calls |-> c3]

\* mutant of UnclesNotOnSwitchEpoch: the epoch's first block for its last
UnclesNotOnFirstBlock(epoch, header, uncles) ==
    header.number = epoch.start_block_number => Len(uncles) = 0

\* verify_uncles before the loop: "go" means the loop is entered
UnclesNotOnSwitchEpoch(epoch, header, uncles) ==
    header.number = epoch.end_block_number => Len(uncles) = 0

\* mutant of UnclesWithinLimit: one uncle more than the epoch allows
UnclesWithinLimit_off_by_one(epoch, uncles) ==
    Len(uncles) <= epoch.max_uncles_per_block + 1

\* uncles.len() as u64 <= epoch.max_uncles_per_block()
UnclesWithinLimit(epoch, uncles) == Len(uncles) <= epoch.max_uncles_per_block

verify_uncles_begin(r, uncles, header) ==
    LET cs == <<Call("epoch", 0)>>
        Go(res, go) == [res |-> res, go |-> go, calls |-> cs]
    IN  IF ~UnclesNotOnSwitchEpoch(r.epoch, header, uncles)
        THEN Go(VerifyBlockFailed("Uncle"), FALSE)
        ELSE IF Len(uncles) = 0 THEN Go(Ok, FALSE)
        ELSE IF ~UnclesWithinLimit(r.epoch, uncles)
            THEN Go(VerifyBlockFailed("Uncle"), FALSE)
        ELSE Go(Ok, TRUE)

\* mutant of verify_uncle: no check of the ids seen
verify_uncle_no_repeat_check(v, r, header, uncle, seen) ==
    LET cbu    == can_be_uncle(r, uncle)
        cf     == Append(cbu.calls, Call("fork", uncle.parent_hash))
        branch == fork(r, uncle.parent_hash)
        vh     == verify_header(v, branch, uncle)
    IN  IF ~(uncle.number < header.number)
            THEN Ret(VerifyBlockFailed("Uncle"), <<>>)
        ELSE IF ~IsOk(cbu.res) THEN Ret(cbu.res, cbu.calls)
        ELSE IF ~cbu.value THEN Ret(VerifyBlockFailed("Uncle"), cbu.calls)
        ELSE IF ~r.forks[uncle.parent_hash].ok THEN Ret(OpaqueError("fork"), cf)
        ELSE Ret(vh.res, cf \o vh.calls)

\* mutant of verify_uncle: the reader forked before the uncle is checked
verify_uncle_fork_first(v, r, header, uncle, seen) ==
    LET c0     == <<Call("fork", uncle.parent_hash)>>
        cbu    == can_be_uncle(r, uncle)
        branch == fork(r, uncle.parent_hash)
        vh     == verify_header(v, branch, uncle)
    IN  IF uncle.id \in seen THEN Ret(VerifyBlockFailed("Uncle"), c0)
        ELSE IF ~(uncle.number < header.number)
            THEN Ret(VerifyBlockFailed("Uncle"), c0)
        ELSE IF ~IsOk(cbu.res) THEN Ret(cbu.res, c0 \o cbu.calls)
        ELSE IF ~cbu.value THEN Ret(VerifyBlockFailed("Uncle"), c0 \o cbu.calls)
        ELSE IF ~r.forks[uncle.parent_hash].ok THEN Ret(OpaqueError("fork"), c0 \o cbu.calls)
        ELSE Ret(vh.res, c0 \o cbu.calls \o vh.calls)

\* mutant of verify_uncle: the uncle's header verified on the current chain
verify_uncle_on_current_chain(v, r, header, uncle, seen) ==
    LET cbu    == can_be_uncle(r, uncle)
        cf     == Append(cbu.calls, Call("fork", uncle.parent_hash))
        vh     == verify_header(v, r, uncle)
    IN  IF uncle.id \in seen THEN Ret(VerifyBlockFailed("Uncle"), <<>>)
        ELSE IF ~(uncle.number < header.number)
            THEN Ret(VerifyBlockFailed("Uncle"), <<>>)
        ELSE IF ~IsOk(cbu.res) THEN Ret(cbu.res, cbu.calls)
        ELSE IF ~cbu.value THEN Ret(VerifyBlockFailed("Uncle"), cbu.calls)
        ELSE IF ~r.forks[uncle.parent_hash].ok THEN Ret(OpaqueError("fork"), cf)
        ELSE Ret(vh.res, cf \o vh.calls)

\* one iteration of the loop of verify_uncles over `uncle`, with the ids seen
verify_uncle(v, r, header, uncle, seen) ==
    LET cbu    == can_be_uncle(r, uncle)
        cf     == Append(cbu.calls, Call("fork", uncle.parent_hash))
        branch == fork(r, uncle.parent_hash)
        vh     == verify_header(v, branch, uncle)
    IN  IF uncle.id \in seen THEN Ret(VerifyBlockFailed("Uncle"), <<>>)
        ELSE IF ~(uncle.number < header.number)
            THEN Ret(VerifyBlockFailed("Uncle"), <<>>)
        ELSE IF ~IsOk(cbu.res) THEN Ret(cbu.res, cbu.calls)
        ELSE IF ~cbu.value THEN Ret(VerifyBlockFailed("Uncle"), cbu.calls)
        ELSE IF ~r.forks[uncle.parent_hash].ok THEN Ret(OpaqueError("fork"), cf)
        ELSE Ret(vh.res, cf \o vh.calls)

(***************************************************************************)
(* Verifier::from_str and Verifier::variants.  A string is the sequence of *)
(* its characters.                                                         *)
(***************************************************************************)
str_basic == <<"b", "a", "s", "i", "c">>

str_consensus == <<"c", "o", "n", "s", "e", "n", "s", "u", "s">>

str_full == <<"f", "u", "l", "l">>

str_none == <<"n", "o", "n", "e">>

\* "invalid verifier type: "
str_invalid == <<"i", "n", "v", "a", "l", "i", "d", " ", "v", "e", "r", "i", "f", "i", "e", "r", " ", "t", "y", "p", "e", ":", " ">>

\* Verifier::variants
variants == <<str_basic, str_consensus, str_full, str_none>>

ParsedOk(variant) == [done |-> TRUE, ok |-> TRUE, variant |-> variant, msg |-> <<>>]

ParsedErr(msg) == [done |-> TRUE, ok |-> FALSE, variant |-> "", msg |-> msg]

NotParsed == [done |-> FALSE, ok |-> FALSE, variant |-> "", msg |-> <<>>]

to_upper(c) ==
    CASE c = "a" -> "A" [] c = "b" -> "B" [] c = "c" -> "C" [] c = "e" -> "E"
      [] c = "f" -> "F" [] c = "i" -> "I" [] c = "l" -> "L" [] c = "n" -> "N"
      [] c = "o" -> "O" [] c = "s" -> "S" [] c = "u" -> "U" [] OTHER -> c

to_lower(c) ==
    CASE c = "A" -> "a" [] c = "B" -> "b" [] c = "C" -> "c" [] c = "E" -> "e"
      [] c = "F" -> "f" [] c = "I" -> "i" [] c = "L" -> "l" [] c = "N" -> "n"
      [] c = "O" -> "o" [] c = "S" -> "s" [] c = "U" -> "u" [] OTHER -> c

\* mutant of from_str: the match made on the lowercased string
from_str_ignoring_case(str) ==
    LET low == [i \in 1..Len(str) |-> to_lower(str[i])]
    IN  IF low = str_basic THEN ParsedOk("Basic")
        ELSE IF low = str_consensus THEN ParsedOk("Consensus")
        ELSE IF low = str_full THEN ParsedOk("Full")
        ELSE IF low = str_none THEN ParsedOk("None")
        ELSE ParsedErr(str_invalid \o str)

\* <Verifier as FromStr>::from_str
from_str(str) ==
    IF str = str_basic THEN ParsedOk("Basic")
    ELSE IF str = str_consensus THEN ParsedOk("Consensus")
    ELSE IF str = str_full THEN ParsedOk("Full")
    ELSE IF str = str_none THEN ParsedOk("None")
    ELSE ParsedErr(str_invalid \o str)

(***************************************************************************)
(* verify_block as a machine: pc is the step about to run, log the steps   *)
(* run so far with their results, calls the reader calls made so far.      *)
(***************************************************************************)
Pending == [kind |-> "Pending", field |-> ""]

Steps == <<"verify_blacklisted_txns", "verify_header", "verify_body_hash",
           "verify_uncles">>

\* mutant of Proceed: the error of a step is dropped
Proceed_ignoring_error(res, next) == next

\* the ? after a step: go on to `next` on Ok, return the error otherwise
Proceed(res, next) == IF IsOk(res) THEN next ELSE "done"

\* what verify_block has returned once a step ended with res and pc moves to p
Returned(res, p, b) ==
    IF p # "done" THEN [res |-> Pending, verified |-> <<>>]
    ELSE IF IsOk(res) THEN [res |-> Ok, verified |-> <<b>>]
    ELSE [res |-> res, verified |-> <<>>]

Logged(step, res) == [step |-> step, res |-> res]

\* mutant of None_verify_block: the trait's default body, not overridden
None_verify_block_not_overridden ==
    /\ pc = "start"
    /\ verifier = "None"
    /\ pc' = "done"
    /\ result' = Returned(IF IsOk(verify_blacklisted_txns(blacklist, block))
                          THEN verify_body_hash(block)
                          ELSE verify_blacklisted_txns(blacklist, block),
                          "done", block)
    /\ UNCHANGED <<parse_vars, chan_vars, sync_vars, body_vars, verifier, reader, block, blacklist, log, calls, uncle_idx, uncle_ids>>

\* NoneVerifier::verify_block
None_verify_block ==
    /\ pc = "start"
    /\ verifier = "None"
    /\ pc' = "done"
    /\ result' = [res |-> Ok, verified |-> <<block>>]
    /\ UNCHANGED <<parse_vars, chan_vars, sync_vars, body_vars, verifier, reader, block, blacklist, log, calls, uncle_idx, uncle_ids>>

\* Self::verify_blacklisted_txns(&new_block)?
VerifyBlacklistedTxns ==
    /\ pc = "start"
    /\ verifier # "None"
    /\ LET res == verify_blacklisted_txns(blacklist, block)
       IN  /\ log' = Append(log, Logged("verify_blacklisted_txns", res))
           /\ pc' = Proceed(res, "header")
           /\ result' = Returned(res, pc', block)
    /\ UNCHANGED <<parse_vars, chan_vars, sync_vars, body_vars, verifier, reader, block, blacklist, calls, uncle_idx, uncle_ids>>

\* Self::verify_header(current_chain, new_block_header)?
VerifyHeader ==
    /\ pc = "header"
    /\ LET r == verify_header(verifier, reader, block.header)
       IN  /\ log' = Append(log, Logged("verify_header", r.res))
           /\ calls' = calls \o r.calls
           /\ pc' = Proceed(r.res, "body")
           /\ result' = Returned(r.res, pc', block)
    /\ UNCHANGED <<parse_vars, chan_vars, sync_vars, body_vars, verifier, reader, block, blacklist, uncle_idx, uncle_ids>>

\* StaticVerifier::verify_body_hash(&new_block)?
VerifyBodyHash ==
    /\ pc = "body"
    /\ LET res == verify_body_hash(block)
       IN  /\ log' = Append(log, Logged("verify_body_hash", res))
           /\ pc' = Proceed(res, "uncles")
           /\ result' = Returned(res, pc', block)
    /\ UNCHANGED <<parse_vars, chan_vars, sync_vars, body_vars, verifier, reader, block, blacklist, calls, uncle_idx, uncle_ids>>

\* the default verify_uncles up to its loop
VerifyUncles ==
    /\ pc = "uncles"
    /\ verifier # "Dag"
    /\ LET r == verify_uncles_begin(reader, unwrap_or_default(block.uncles),
                                    block.header)
       IN  /\ calls' = calls \o r.calls
           /\ pc' = IF r.go THEN "uncle_loop" ELSE "done"
           /\ log' = Append(log, Logged("verify_uncles",
                                        IF r.go THEN Pending ELSE r.res))
           /\ result' = Returned(r.res, pc', block)
    /\ uncle_idx' = 1
    /\ uncle_ids' = {}
    /\ UNCHANGED <<parse_vars, chan_vars, sync_vars, body_vars, verifier, reader, block, blacklist>>

\* mutant of VerifyUncle: the reader is moved onto the branch it forked
VerifyUncle_on_forked_reader ==
    /\ pc = "uncle_loop"
    /\ LET uncles == unwrap_or_default(block.uncles)
           uncle  == uncles[uncle_idx]
           r      == verify_uncle(verifier, reader, block.header, uncle, uncle_ids)
           more   == IsOk(r.res) /\ uncle_idx < Len(uncles)
       IN  /\ calls' = calls \o r.calls
           /\ pc' = IF more THEN "uncle_loop" ELSE "done"
           /\ uncle_idx' = IF IsOk(r.res) THEN uncle_idx + 1 ELSE uncle_idx
           /\ uncle_ids' = IF IsOk(r.res) THEN uncle_ids \cup {uncle.id} ELSE uncle_ids
           /\ log' = IF more THEN log
                     ELSE [log EXCEPT ![Len(log)] = Logged("verify_uncles", r.res)]
           /\ result' = Returned(r.res, pc', block)
           /\ reader' = IF \E i \in 1..Len(r.calls) : r.calls[i].op = "fork"
                        THEN fork(reader, uncle.parent_hash)
                        ELSE reader
    /\ UNCHANGED <<parse_vars, chan_vars, sync_vars, body_vars, verifier, block, blacklist>>

\* one iteration of the loop of the default verify_uncles
VerifyUncle ==
    /\ pc = "uncle_loop"
    /\ LET uncles == unwrap_or_default(block.uncles)
           uncle  == uncles[uncle_idx]
           r      == verify_uncle(verifier, reader, block.header, uncle, uncle_ids)
           more   == IsOk(r.res) /\ uncle_idx < Len(uncles)
       IN  /\ calls' = calls \o r.calls
           /\ pc' = IF more THEN "uncle_loop" ELSE "done"
           /\ uncle_idx' = IF IsOk(r.res) THEN uncle_idx + 1 ELSE uncle_idx
           /\ uncle_ids' = IF IsOk(r.res) THEN uncle_ids \cup {uncle.id} ELSE uncle_ids
           /\ log' = IF more THEN log
                     ELSE [log EXCEPT ![Len(log)] = Logged("verify_uncles", r.res)]
           /\ result' = Returned(r.res, pc', block)
    /\ UNCHANGED <<parse_vars, chan_vars, sync_vars, body_vars, verifier, reader, block, blacklist>>

\* mutant of Dag_verify_uncles: the count and repeat checks of the default
\* verify_uncles kept
Dag_verify_uncles_checked ==
    /\ pc = "uncles"
    /\ verifier = "Dag"
    /\ LET uncles == unwrap_or_default(block.uncles)
           res    == IF ~UnclesWithinLimit(reader.epoch, uncles)
                        \/ \E i, j \in 1..Len(uncles) : i < j /\ uncles[i].id = uncles[j].id
                     THEN VerifyBlockFailed("Uncle")
                     ELSE Ok
       IN  /\ log' = Append(log, Logged("verify_uncles", res))
           /\ pc' = "done"
           /\ result' = Returned(res, pc', block)
    /\ UNCHANGED <<parse_vars, chan_vars, sync_vars, body_vars, verifier, reader, block, blacklist, calls, uncle_idx, uncle_ids>>

\* DagVerifier::verify_uncles
Dag_verify_uncles ==
    /\ pc = "uncles"
    /\ verifier = "Dag"
    /\ log' = Append(log, Logged("verify_uncles", Ok))
    /\ pc' = "done"
    /\ result' = Returned(Ok, pc', block)
    /\ UNCHANGED <<parse_vars, chan_vars, sync_vars, body_vars, verifier, reader, block, blacklist, calls, uncle_idx, uncle_ids>>

Next ==
    \/ None_verify_block
    \/ VerifyBlacklistedTxns
    \/ VerifyHeader
    \/ VerifyBodyHash
    \/ VerifyUncles
    \/ VerifyUncle
    \/ Dag_verify_uncles

(***************************************************************************)
(* Inputs.  The candidate block has id 5.  The local chain holds block 2   *)
(* (number 0) and on it the head, block 1; ids 3 and 4 are side blocks.    *)
(***************************************************************************)
Header(id, parent, parents, number, ts, bh, gas, root) ==
    [id |-> id, parent_hash |-> parent, parents_hash |-> parents,
     number |-> number, timestamp |-> ts, body_hash |-> bh, gas_used |-> gas,
     block_accumulator_root |-> root]

HeadOf(id, number, ts) == [id |-> id, number |-> number, timestamp |-> ts]

Epoch(start, end, max_uncles, gas_limit) ==
    [start_block_number |-> start, end_block_number |-> end,
     max_uncles_per_block |-> max_uncles, block_gas_limit |-> gas_limit]

Info(kind, root) == [kind |-> kind, root |-> root]

Block(header, body, uncles) == [header |-> header, body |-> body, uncles |-> uncles]

Txn(sender) == [sender |-> sender]

\* a reader over the chain 2 <- head, with every answer given
Reader(head, epoch, now, head_info, chain_type, exist, epoch_uncles, dag, strategy, fork_ok) ==
    [head |-> head, epoch |-> epoch, now |-> now,
     infos |-> [h \in Hashes |-> IF h = head.id THEN head_info
                                 ELSE IF h = 2 THEN Info("Some", 1)
                                 ELSE Info("None", 0)],
     chain_type |-> chain_type, exist |-> exist, epoch_uncles |-> epoch_uncles,
     dag |-> dag, strategy |-> strategy,
     forks |-> [h \in Hashes |-> IF h = head.id THEN [ok |-> fork_ok, head |-> head]
                                 ELSE IF h = 2
                                      THEN [ok |-> fork_ok, head |-> HeadOf(2, 0, 0)]
                                 ELSE [ok |-> FALSE, head |-> HeadOf(h, 0, 0)]]]

ExistOnChain == [h \in Hashes |-> IF h \in {1, 2} THEN "true" ELSE "false"]

AllDag == [h \in Hashes |-> "true"]

Verdicts == {"Ok", "ConsensusVerifyError", "Other"}

AllVerdict(v) == [h \in Hashes |-> v]

Bodies == {<<>>, <<Txn(1)>>, <<Txn(2)>>, <<Txn(1), Txn(2)>>}

SeqsUpTo(S, n) == UNION {[1..k -> S] : k \in 0..n}

(***************************************************************************)
(* InnerSyncTask::do_sync.  `sync` holds what the collaborators answer:    *)
(* whether ancestor_block_info, BlockAccumulatorSyncTask::new, the         *)
(* accumulator stage, BlockChain::new, iter_at_first and                   *)
(* delete_all_dag_sync_block and the block-sync stage succeed, and         *)
(* `absent`, what each round of the                                        *)
(* absent-block loop meets: "ok" (blocks read and executed), "read_err"    *)
(* (read_local_absent_block fails) or "exec_err" (execute_absent_block     *)
(* fails); a read past the end of `absent` returns no block.               *)
(***************************************************************************)
MaxAbsent == 3

SyncAnswers(pre, new, acc, chain, iter, delete, blocks, absent) ==
    [ancestor_ok |-> pre, new_ok |-> new, acc_ok |-> acc, chain_ok |-> chain,
     iter_ok |-> iter, delete_ok |-> delete, blocks_ok |-> blocks, absent |-> absent]

NoSync ==
    /\ sync = SyncAnswers(TRUE, TRUE, TRUE, TRUE, TRUE, TRUE, TRUE, <<>>)
    /\ sync_pc = "idle"
    /\ absent_pos = 1
    /\ sync_calls = <<>>
    /\ sync_result = "none"

\* Err(e) of do_sync, e named by the call it came from
SyncErr(origin) == "Err: " \o origin

\* the start of do_sync: ancestor_block_info()? and BlockAccumulatorSyncTask::new(..)?
PrepareSync ==
    /\ sync_pc = "start"
    /\ IF ~sync.ancestor_ok
       THEN /\ sync_calls' = Append(sync_calls, "ancestor_block_info")
            /\ sync_pc' = "done"
            /\ sync_result' = SyncErr("ancestor_block_info")
       ELSE IF ~sync.new_ok
       THEN /\ sync_calls' = sync_calls \o <<"ancestor_block_info", "BlockAccumulatorSyncTask::new">>
            /\ sync_pc' = "done"
            /\ sync_result' = SyncErr("BlockAccumulatorSyncTask::new")
       ELSE /\ sync_calls' = sync_calls \o <<"ancestor_block_info", "BlockAccumulatorSyncTask::new">>
            /\ sync_pc' = "accumulator"
            /\ sync_result' = sync_result
    /\ UNCHANGED <<verify_vars, parse_vars, chan_vars, body_vars, sync, absent_pos>>

\* the accumulator stage runs (fut.await); and_then calls the closure with
\* its result, or the stage's error ends do_sync
AccumulatorStage ==
    /\ sync_pc = "accumulator"
    /\ sync_calls' = Append(sync_calls, IF sync.acc_ok THEN "accumulator: Ok"
                                        ELSE "accumulator: Err")
    /\ sync_pc' = IF sync.acc_ok THEN "and_then" ELSE "done"
    /\ sync_result' = IF sync.acc_ok THEN sync_result ELSE SyncErr("accumulator")
    /\ UNCHANGED <<verify_vars, parse_vars, chan_vars, body_vars, sync, absent_pos>>

\* the and_then closure up to the loop: BlockSyncTask::new, BlockChain::new(..)?,
\* BlockCollector::new_with_handle, iter_at_first()?
BuildBlockSync ==
    /\ sync_pc = "and_then"
    /\ IF ~sync.chain_ok
       THEN /\ sync_calls' = sync_calls \o <<"BlockSyncTask::new", "BlockChain::new">>
            /\ sync_pc' = "done"
            /\ sync_result' = SyncErr("BlockChain::new")
       ELSE IF ~sync.iter_ok
       THEN /\ sync_calls' = sync_calls \o <<"BlockSyncTask::new", "BlockChain::new", "iter_at_first">>
            /\ sync_pc' = "done"
            /\ sync_result' = SyncErr("iter_at_first")
       ELSE /\ sync_calls' = sync_calls \o <<"BlockSyncTask::new", "BlockChain::new", "iter_at_first">>
            /\ sync_pc' = "loop"
            /\ sync_result' = sync_result
    /\ absent_pos' = 1
    /\ UNCHANGED <<verify_vars, parse_vars, chan_vars, body_vars, sync>>

\* mutant of ReplayAbsent: the errors of the loop returned with ?
ReplayAbsent_propagating ==
    /\ sync_pc = "loop"
    /\ LET met == IF absent_pos > Len(sync.absent) THEN "empty"
                  ELSE sync.absent[absent_pos]
       IN  /\ sync_calls' = IF met \in {"ok", "exec_err"}
                            THEN sync_calls \o <<"read_local_absent_block", "execute_absent_block">>
                            ELSE Append(sync_calls, "read_local_absent_block")
           /\ sync_pc' = IF met = "ok" THEN "loop"
                         ELSE IF met = "empty" THEN "delete" ELSE "done"
           /\ absent_pos' = IF met = "ok" THEN absent_pos + 1 ELSE absent_pos
           /\ sync_result' = IF met = "read_err" THEN SyncErr("read_local_absent_block")
                             ELSE IF met = "exec_err" THEN SyncErr("execute_absent_block")
                             ELSE sync_result
    /\ UNCHANGED <<verify_vars, parse_vars, chan_vars, body_vars, sync>>

\* one round of the loop over the locally stored absent blocks
ReplayAbsent ==
    /\ sync_pc = "loop"
    /\ LET met == IF absent_pos > Len(sync.absent) THEN "empty"
                  ELSE sync.absent[absent_pos]
       IN  /\ sync_calls' = IF met \in {"ok", "exec_err"}
                            THEN sync_calls \o <<"read_local_absent_block", "execute_absent_block">>
                            ELSE Append(sync_calls, "read_local_absent_block")
           /\ sync_pc' = IF met = "ok" THEN "loop" ELSE "delete"
           /\ absent_pos' = IF met = "ok" THEN absent_pos + 1 ELSE absent_pos
    /\ UNCHANGED <<verify_vars, parse_vars, chan_vars, body_vars, sync, sync_result>>

\* self.sync_dag_store.delete_all_dag_sync_block()?
DeleteAllDagSyncBlock ==
    /\ sync_pc = "delete"
    /\ sync_calls' = Append(sync_calls, "delete_all_dag_sync_block")
    /\ sync_pc' = IF sync.delete_ok THEN "generate" ELSE "done"
    /\ sync_result' = IF sync.delete_ok THEN sync_result
                      ELSE SyncErr("delete_all_dag_sync_block")
    /\ UNCHANGED <<verify_vars, parse_vars, chan_vars, body_vars, sync, absent_pos>>

\* Ok(TaskGenerator::new(block_sync_task, ..)): the block-sync task is generated
GenerateBlockSync ==
    /\ sync_pc = "generate"
    /\ sync_calls' = Append(sync_calls, "TaskGenerator::new(block_sync_task)")
    /\ sync_pc' = "block_sync"
    /\ UNCHANGED <<verify_vars, parse_vars, chan_vars, body_vars, sync, absent_pos, sync_result>>

\* the generated block-sync stage runs and fut.await? returns
BlockSyncStage ==
    /\ sync_pc = "block_sync"
    /\ sync_calls' = Append(sync_calls, IF sync.blocks_ok THEN "block sync: Ok"
                                        ELSE "block sync: Err")
    /\ sync_pc' = "done"
    /\ sync_result' = IF sync.blocks_ok THEN "Ok" ELSE SyncErr("block sync")
    /\ UNCHANGED <<verify_vars, parse_vars, chan_vars, body_vars, sync, absent_pos>>

NextSync ==
    \/ PrepareSync
    \/ AccumulatorStage
    \/ BuildBlockSync
    \/ ReplayAbsent
    \/ DeleteAllDagSyncBlock
    \/ GenerateBlockSync
    \/ BlockSyncStage

(***************************************************************************)
(* Handler<SyncBodyEvent> for DownloadBodyActor.  event_peers[i] is what   *)
(* send_sync_request to the i-th peer of event.peers resolves to:          *)
(* "BatchHeaderAndBodyMsg", "Other" (another SyncRpcResponse) or "Err".    *)
(***************************************************************************)
MaxPeers == 3

Responses == {"BatchHeaderAndBodyMsg", "Other", "Err"}

NoDownload ==
    /\ event_peers = <<>>
    /\ handler = "idle"
    /\ task = [pc |-> "none", idx |-> 1]
    /\ asked = <<>>
    /\ blocks_from = <<>>

\* handle: the request is built, the task is spawned on the arbiter, Ok(())
\* is returned; the task is first polled after the handler returned
Handle ==
    /\ handler = "called"
    /\ handler' = "Ok"
    /\ task' = [pc |-> "loop", idx |-> 1]
    /\ UNCHANGED <<verify_vars, parse_vars, chan_vars, sync_vars, event_peers, asked, blocks_from>>

\* for peer in peers: send_sync_request(&network, peer, req), then .await
SendSyncRequest ==
    /\ task.pc = "loop"
    /\ task.idx <= Len(event_peers)
    /\ asked' = Append(asked, task.idx)
    /\ task' = [task EXCEPT !.pc = "awaiting"]
    /\ UNCHANGED <<verify_vars, parse_vars, chan_vars, sync_vars, event_peers, handler, blocks_from>>

\* the for loop has no peer left
TaskEnds ==
    /\ task.pc = "loop"
    /\ task.idx > Len(event_peers)
    /\ task' = [task EXCEPT !.pc = "finished"]
    /\ UNCHANGED <<verify_vars, parse_vars, chan_vars, sync_vars, event_peers, handler, asked, blocks_from>>

\* the request resolves: unwrap() panics on Err, if let takes
\* BatchHeaderAndBodyMsg, anything else goes on to the next peer
PeerAnswers ==
    /\ task.pc = "awaiting"
    /\ task' = CASE event_peers[task.idx] = "Err" -> [task EXCEPT !.pc = "panicked"]
                 [] event_peers[task.idx] = "BatchHeaderAndBodyMsg"
                        -> [task EXCEPT !.pc = "do_blocks"]
                 [] OTHER -> [pc |-> "loop", idx |-> task.idx + 1]
    /\ UNCHANGED <<verify_vars, parse_vars, chan_vars, sync_vars, event_peers, handler, asked, blocks_from>>

\* mutant of DoBlocks: no break after do_blocks
DoBlocks_without_break ==
    /\ task.pc = "do_blocks"
    /\ blocks_from' = Append(blocks_from, task.idx)
    /\ task' = [pc |-> "loop", idx |-> task.idx + 1]
    /\ UNCHANGED <<verify_vars, parse_vars, chan_vars, sync_vars, event_peers, handler, asked>>

\* Downloader::do_blocks(downloader, headers, bodies.bodies, infos.infos).await; break
DoBlocks ==
    /\ task.pc = "do_blocks"
    /\ blocks_from' = Append(blocks_from, task.idx)
    /\ task' = [task EXCEPT !.pc = "finished"]
    /\ UNCHANGED <<verify_vars, parse_vars, chan_vars, sync_vars, event_peers, handler, asked>>

NextDownload ==
    \/ Handle
    \/ SendSyncRequest
    \/ TaskEnds
    \/ PeerAnswers
    \/ DoBlocks

(***************************************************************************)
(* tracing_unbounded (feature "metered"): a futures unbounded channel      *)
(* wrapped by TracingUnboundedSender and TracingUnboundedReceiver, which   *)
(* count under the channel's key in G_UNBOUNDED_CHANNELS_COUNTER.          *)
(*   chan    : the inner channel: queue, open, and terminated (the inner   *)
(*             receiver saw the channel closed and empty)                  *)
(*   counter : the "send", "received" and "dropped" counters of the key    *)
(*   senders : per sender, pc ("idle", or "inc_send" inside unbounded_send *)
(*             between the inner send and the counter)                     *)
(*   rx      : the receiver: pc, the local `count` of consume, whether it  *)
(*             is alive, the operation under way and what held when it     *)
(*             was called                                                  *)
(*   sends   : how many send operations put their message in (ok), how     *)
(*             many failed (err), and the operation of the last one (by)   *)
(*   last    : what the receiver's last completed operation returned       *)
(***************************************************************************)
MaxSends == 3

Senders == {1, 2}

\* mpsc::unbounded()
NewChannel == [queue |-> <<>>, open |-> TRUE, terminated |-> FALSE]

NewCounter == [send |-> 0, received |-> 0, dropped |-> 0]

NewReceiver ==
    [pc |-> "idle", count |-> 0, alive |-> TRUE, op |-> "",
     at_call |-> [queued |-> 0, dropped |-> 0, ok |-> 0]]

\* tracing_unbounded(key)
ChannelCreated ==
    /\ chan = NewChannel
    /\ counter = NewCounter
    /\ senders = [s \in Senders |-> "idle"]
    /\ rx = NewReceiver
    /\ sends = [ok |-> 0, err |-> 0, by |-> ""]
    /\ last = "none"

\* UnboundedSender::unbounded_send / start_send of the inner channel: the
\* message is queued unless the channel is closed
inner_send(ch, msg) ==
    IF ch.open THEN [ok |-> TRUE, ch |-> [ch EXCEPT !.queue = Append(@, msg)]]
    ELSE [ok |-> FALSE, ch |-> ch]

\* UnboundedReceiver::next_message of the inner channel
inner_next(ch) ==
    IF Len(ch.queue) > 0
        THEN [got |-> "Some", ch |-> [ch EXCEPT !.queue = Tail(@)]]
    ELSE IF ~ch.open \/ ch.terminated
        THEN [got |-> "None", ch |-> [ch EXCEPT !.terminated = TRUE]]
    ELSE [got |-> "Empty", ch |-> ch]

\* G_UNBOUNDED_CHANNELS_COUNTER.with_label_values(&[key, label]).inc_by(n)
inc_by(c, label, n) == [c EXCEPT ![label] = @ + n]

\* mutant of try_next: "received" counted whatever came out
try_next_counting_all(ch, c) ==
    LET r == inner_next(ch)
    IN  [ret |-> IF r.got = "Empty" THEN "Err" ELSE r.got,
         ch |-> r.ch,
         counter |-> inc_by(c, "received", 1)]

\* TracingUnboundedReceiver::try_next
try_next(ch, c) ==
    LET r == inner_next(ch)
    IN  [ret |-> IF r.got = "Empty" THEN "Err" ELSE r.got,
         ch |-> r.ch,
         counter |-> IF r.got = "Some" THEN inc_by(c, "received", 1) ELSE c]

\* <TracingUnboundedReceiver as Stream>::poll_next
poll_next(ch, c) ==
    LET r == inner_next(ch)
    IN  [ret |-> IF r.got = "Empty" THEN "Pending" ELSE r.got,
         ch |-> r.ch,
         counter |-> IF r.got = "Some" THEN inc_by(c, "received", 1) ELSE c]

CanSend(s) == senders[s] = "idle" /\ sends.ok + sends.err < MaxSends

Sent(r, op) ==
    [ok |-> sends.ok + (IF r.ok THEN 1 ELSE 0),
     err |-> sends.err + (IF r.ok THEN 0 ELSE 1),
     by |-> op]

\* TracingUnboundedSender::unbounded_send, up to the inner send
UnboundedSend(s) ==
    /\ CanSend(s)
    /\ LET r == inner_send(chan, s)
       IN  /\ chan' = r.ch
           /\ sends' = Sent(r, "unbounded_send")
           /\ senders' = [senders EXCEPT ![s] = IF r.ok THEN "inc_send" ELSE "idle"]
    /\ UNCHANGED <<verify_vars, parse_vars, sync_vars, body_vars, counter, rx, last>>

\* the closure of unbounded_send's map: the "send" counter, then return
CountSend(s) ==
    /\ senders[s] = "inc_send"
    /\ counter' = inc_by(counter, "send", 1)
    /\ senders' = [senders EXCEPT ![s] = "idle"]
    /\ UNCHANGED <<verify_vars, parse_vars, sync_vars, body_vars, chan, rx, sends, last>>

\* TracingUnboundedSender::start_send (inherent)
StartSend(s) ==
    /\ CanSend(s)
    /\ LET r == inner_send(chan, s)
       IN  /\ chan' = r.ch
           /\ sends' = Sent(r, "start_send")
    /\ UNCHANGED <<verify_vars, parse_vars, sync_vars, body_vars, counter, senders, rx, last>>

\* <TracingUnboundedSender as Sink>::start_send: Self::start_send(&mut *self, msg)
SinkStartSend(s) ==
    /\ CanSend(s)
    /\ LET r == inner_send(chan, s)
       IN  /\ chan' = r.ch
           /\ sends' = Sent(r, "Sink::start_send")
    /\ UNCHANGED <<verify_vars, parse_vars, sync_vars, body_vars, counter, senders, rx, last>>

\* <&TracingUnboundedSender as Sink>::start_send: self.unbounded_send(msg)
SinkRefStartSend(s) ==
    /\ CanSend(s)
    /\ LET r == inner_send(chan, s)
       IN  /\ chan' = r.ch
           /\ sends' = Sent(r, "&Sink::start_send")
           /\ senders' = [senders EXCEPT ![s] = IF r.ok THEN "inc_send" ELSE "idle"]
    /\ UNCHANGED <<verify_vars, parse_vars, sync_vars, body_vars, counter, rx, last>>

\* TracingUnboundedSender::close_channel
CloseChannel(s) ==
    /\ senders[s] = "idle"
    /\ chan.open
    /\ chan' = [chan EXCEPT !.open = FALSE]
    /\ UNCHANGED <<verify_vars, parse_vars, sync_vars, body_vars, counter, senders, rx, sends, last>>

ReceiverIdle == rx.alive /\ rx.pc = "idle"

\* a call of TracingUnboundedReceiver::try_next by the owner of the receiver
TryNext ==
    /\ ReceiverIdle
    /\ LET r == try_next(chan, counter)
       IN  /\ chan' = r.ch
           /\ counter' = r.counter
           /\ last' = r.ret
    /\ UNCHANGED <<verify_vars, parse_vars, sync_vars, body_vars, senders, rx, sends>>

\* a poll of the receiver as a Stream
PollNext ==
    /\ ReceiverIdle
    /\ LET r == poll_next(chan, counter)
       IN  /\ chan' = r.ch
           /\ counter' = r.counter
           /\ last' = r.ret
    /\ UNCHANGED <<verify_vars, parse_vars, sync_vars, body_vars, senders, rx, sends>>

EnterConsume(op) ==
    [rx EXCEPT !.pc = "consume", !.count = 0, !.op = op,
               !.at_call = [queued |-> Len(chan.queue),
                            dropped |-> counter.dropped, ok |-> sends.ok]]

\* TracingUnboundedReceiver::close is called
Close ==
    /\ ReceiverIdle
    /\ rx' = EnterConsume("close")
    /\ UNCHANGED <<verify_vars, parse_vars, sync_vars, body_vars, chan, counter, senders, sends, last>>

\* the receiver is dropped
Drop ==
    /\ ReceiverIdle
    /\ rx' = EnterConsume("drop")
    /\ UNCHANGED <<verify_vars, parse_vars, sync_vars, body_vars, chan, counter, senders, sends, last>>

\* one iteration of the loop of consume
Consume ==
    /\ rx.pc = "consume"
    /\ IF chan.terminated
       THEN /\ rx' = [rx EXCEPT !.pc = "discount"]
            /\ UNCHANGED <<chan, counter>>
       ELSE LET r == try_next(chan, counter)
            IN  /\ chan' = r.ch
                /\ counter' = r.counter
                /\ rx' = IF r.ret = "Some" THEN [rx EXCEPT !.count = @ + 1]
                         ELSE [rx EXCEPT !.pc = "discount"]
    /\ UNCHANGED <<verify_vars, parse_vars, sync_vars, body_vars, senders, sends, last>>

\* the end of consume: if count > 0 { "dropped".inc_by(count) }
Discount ==
    /\ rx.pc = "discount"
    /\ counter' = IF rx.count > 0 THEN inc_by(counter, "dropped", rx.count) ELSE counter
    /\ rx' = [rx EXCEPT !.pc = IF rx.op = "close" THEN "inner_close" ELSE "inner_drop"]
    /\ UNCHANGED <<verify_vars, parse_vars, sync_vars, body_vars, chan, senders, sends, last>>

\* self.1.close(), the end of close
InnerClose ==
    /\ rx.pc = "inner_close"
    /\ chan' = [chan EXCEPT !.open = FALSE]
    /\ rx' = [rx EXCEPT !.pc = "idle"]
    /\ last' = "closed"
    /\ UNCHANGED <<verify_vars, parse_vars, sync_vars, body_vars, counter, senders, sends>>

\* the inner receiver is dropped after Drop::drop returned: the channel is
\* closed and what is queued is discarded
InnerDrop ==
    /\ rx.pc = "inner_drop"
    /\ chan' = [chan EXCEPT !.open = FALSE, !.queue = <<>>]
    /\ rx' = [rx EXCEPT !.pc = "dropped", !.alive = FALSE]
    /\ last' = "dropped"
    /\ UNCHANGED <<verify_vars, parse_vars, sync_vars, body_vars, counter, senders, sends>>

NextChannel ==
    \/ \E s \in Senders :
        \/ UnboundedSend(s)
        \/ CountSend(s)
        \/ StartSend(s)
        \/ SinkStartSend(s)
        \/ SinkRefStartSend(s)
        \/ CloseChannel(s)
    \/ TryNext
    \/ PollNext
    \/ Close
    \/ Drop
    \/ Consume
    \/ Discount
    \/ InnerClose
    \/ InnerDrop

Started(v, r, b, bl) ==
    /\ verifier = v
    /\ reader = r
    /\ block = b
    /\ blacklist = bl
    /\ pc = "start"
    /\ log = <<>>
    /\ calls = <<>>
    /\ result = [res |-> Pending, verified |-> <<>>]
    /\ uncle_idx = 1
    /\ uncle_ids = {}
    /\ input = <<>>
    /\ parsed = NotParsed
    /\ ChannelCreated
    /\ NoSync
    /\ NoDownload

\* heights, parents and times of BasicVerifier::verify_header
InitHeights ==
    \E v \in {"Basic", "Full"}, hn \in U64, n \in U64, p \in {1, 2},
       ts \in U64, now \in U64, e \in {<<0, MaxU>>, <<1, 2>>},
       ik \in {"Some", "Err"} :
        Started(v,
                Reader(HeadOf(1, hn, 1), Epoch(e[1], e[2], 2, 1), now, Info(ik, 1),
                       "Single", ExistOnChain, {}, AllDag, AllVerdict("Ok"), TRUE),
                Block(Header(5, p, None, n, ts, 0, 0, 1), <<>>, None),
                {})

\* epoch window, gas, accumulator root and chain type of BasicVerifier
InitEpochChecks ==
    \E v \in {"Basic", "Full"}, ee \in {1, 2, MaxU}, es \in {0, 1},
       gas \in {0, 1, 2}, ik \in {"Some", "None", "Err"}, root \in {1, 2},
       ct \in {"Single", "Dag", "Err"},
       ph \in {None, Some(<<>>), Some(<<1>>)}, sv \in Verdicts :
        Started(v,
                Reader(HeadOf(1, 1, 1), Epoch(es, ee, 2, 1), 1, Info(ik, root),
                       ct, ExistOnChain, {}, AllDag, AllVerdict(sv), TRUE),
                Block(Header(5, 1, ph, 2, 2, 0, gas, 1), <<>>, None),
                {})

\* declared parents of DagVerifier::verify_header
InitDag ==
    \E p \in {1, 2}, ph \in {None} \cup {Some(q) : q \in SeqsUpTo({1, 2, 3}, MaxParents)},
       dag \in [{1, 2, 3} -> {"true", "false", "err"}],
       ik \in {"Some", "None", "Err"}, sv \in Verdicts :
        Started("Dag",
                [Reader(HeadOf(1, 1, 1), Epoch(0, MaxU, 2, 1), 1, Info("Some", 1),
                        "Dag", ExistOnChain, {},
                        [h \in Hashes |-> IF h \in {1, 2, 3} THEN dag[h] ELSE "true"],
                        AllVerdict(sv), TRUE)
                 EXCEPT !.infos = [h \in Hashes |-> IF h \in {1, 2} THEN Info(ik, 1)
                                                    ELSE Info("None", 0)]],
                Block(Header(5, p, ph, 2, 2, 0, 0, 1), <<>>, None),
                {})

\* uncle headers: two good side blocks built on block 2, one with a stale
\* timestamp, one below its parent's height + 1, the head itself, and one as
\* high as the candidate
Uncle(id, parent, number, ts) == Header(id, parent, None, number, ts, 0, 0, 1)

UncleHeaders ==
    {Uncle(3, 2, 1, 1), Uncle(4, 2, 1, 1), Uncle(3, 2, 1, 0), Uncle(4, 2, 0, 1),
     Uncle(1, 2, 1, 1), Uncle(4, 1, 2, 2)}

\* the reader's answers about uncles: all good, or one of them off
UncleAnswers ==
    LET good == [exist |-> ExistOnChain, epoch_uncles |-> {}, fork_ok |-> TRUE,
                 verdict |-> "Ok", start |-> 0]
    IN  {good,
         [good EXCEPT !.exist = [ExistOnChain EXCEPT ![2] = "err"]],
         [good EXCEPT !.exist = [ExistOnChain EXCEPT ![2] = "false"]],
         [good EXCEPT !.exist = [ExistOnChain EXCEPT ![3] = "err"]],
         [good EXCEPT !.exist = [ExistOnChain EXCEPT ![3] = "true"]],
         [good EXCEPT !.epoch_uncles = {3}],
         [good EXCEPT !.fork_ok = FALSE],
         [good EXCEPT !.verdict = "ConsensusVerifyError"],
         [good EXCEPT !.verdict = "Other"],
         [good EXCEPT !.start = 1]}

\* uncle lists of verify_uncles, the default one and DagVerifier's
InitUncles ==
    \E v \in {"Basic", "Consensus", "Full", "Dag"}, us \in SeqsUpTo(UncleHeaders, MaxUncles),
       a \in UncleAnswers, mu \in {1, 2}, ee \in {2, 3} :
        Started(v,
                Reader(HeadOf(1, 1, 1), Epoch(a.start, ee, mu, 1), 2, Info("Some", 1),
                       "Single", a.exist, a.epoch_uncles, AllDag,
                       [h \in Hashes |-> IF h \in {3, 4} THEN a.verdict ELSE "Ok"],
                       a.fork_ok),
                Block(Header(5, 1, IF v = "Dag" THEN Some(<<1>>) ELSE None, 2, 2, 0, 0, 1),
                      <<>>, Some(us)),
                {})

\* whole blocks: every strategy, bodies, body hashes, blacklisted senders
InitBlocks ==
    \E v \in {"Basic", "Consensus", "Full", "Dag", "None"}, body \in Bodies,
       off \in {0, 1}, bl \in {{}, {2}}, n \in {1, 2},
       ph \in {None, Some(<<1>>)}, sv \in Verdicts,
       us \in {None, Some(<<>>), Some(<<Uncle(3, 2, 1, 1)>>),
               Some(<<Uncle(3, 2, 1, 1), Uncle(3, 2, 1, 1)>>)} :
        Started(v,
                Reader(HeadOf(1, 1, 1), Epoch(0, 3, 2, 1), 2, Info("Some", 1),
                       "Single", ExistOnChain, {}, AllDag,
                       [h \in Hashes |-> IF h = 5 THEN sv ELSE "Ok"], TRUE),
                Block(Header(5, 1, ph, n, 2, body_hash_of(body) + off, 0, 1),
                      body, us),
                bl)

\* DAG headers that the checks of BasicVerifier would refuse
InitDagHeaders ==
    \E p \in {1, 2}, ph \in {<<1>>, <<2>>, <<1, 2>>}, n \in U64, ts \in U64,
       gas \in {0, 2}, root \in {1, 2}, e \in {<<0, MaxU>>, <<1, 2>>},
       sv \in {"Ok", "ConsensusVerifyError"} :
        Started("Dag",
                Reader(HeadOf(1, 1, 1), Epoch(e[1], e[2], 2, 1), 1, Info("Some", 1),
                       "Dag", ExistOnChain, {}, AllDag, AllVerdict(sv), TRUE),
                Block(Header(5, p, Some(ph), n, ts, 0, gas, root), <<>>, None),
                {})

Init ==
    \/ InitHeights
    \/ InitEpochChecks
    \/ InitDag
    \/ InitDagHeaders
    \/ InitUncles
    \/ InitBlocks

Spec == Init /\ [][Next]_vars

(***************************************************************************)
(* Verifier selection: one call of Verifier::from_str on a string, no      *)
(* verify_block under way.                                                 *)
(***************************************************************************)
WithChar(str, i, c) == [str EXCEPT ![i] = c]

WithoutChar(str, i) == SubSeq(str, 1, i - 1) \o SubSeq(str, i + 1, Len(str))

TwiceChar(str, i) == SubSeq(str, 1, i) \o SubSeq(str, i, Len(str))

\* the accepted strings and their neighbours: other case, surrounding
\* whitespace, a character missing or doubled, the empty string
ParseInputs ==
    {<<>>} \cup UNION {
        {t, <<" ">> \o t, t \o <<" ">>, [i \in 1..Len(t) |-> to_upper(t[i])]}
        \cup {WithChar(t, i, to_upper(t[i])) : i \in 1..Len(t)}
        \cup {WithoutChar(t, i) : i \in 1..Len(t)}
        \cup {TwiceChar(t, i) : i \in 1..Len(t)}
        : t \in {str_basic, str_consensus, str_full, str_none}}

NoVerifyBlock ==
    /\ verifier = "None"
    /\ reader = Reader(HeadOf(1, 1, 1), Epoch(0, MaxU, 2, 1), 1, Info("Some", 1), "Single", ExistOnChain, {}, AllDag, AllVerdict("Ok"), TRUE)
    /\ block = Block(Header(5, 1, None, 2, 2, 0, 0, 1), <<>>, None)
    /\ blacklist = {}
    /\ pc = "idle"
    /\ log = <<>>
    /\ calls = <<>>
    /\ result = [res |-> Pending, verified |-> <<>>]
    /\ uncle_idx = 1
    /\ uncle_ids = {}

InitParse ==
    /\ NoVerifyBlock
    /\ ChannelCreated
    /\ NoSync
    /\ NoDownload
    /\ input \in ParseInputs
    /\ parsed = NotParsed

\* Verifier::from_str(input)
FromStr ==
    /\ ~parsed.done
    /\ pc = "idle"
    /\ parsed' = from_str(input)
    /\ UNCHANGED <<verify_vars, chan_vars, sync_vars, body_vars, input>>

NextParse == FromStr

SpecParse == InitParse /\ [][NextParse]_vars

(***************************************************************************)
(* One metered channel with two senders and its receiver, used by          *)
(* concurrent tasks.                                                       *)
(***************************************************************************)
InitChannel ==
    /\ NoVerifyBlock
    /\ input = <<>>
    /\ parsed = NotParsed
    /\ ChannelCreated
    /\ NoSync
    /\ NoDownload

SpecChannel == InitChannel /\ [][NextChannel]_vars

(***************************************************************************)
(* One call of InnerSyncTask::do_sync, for every answer of its             *)
(* collaborators.                                                          *)
(***************************************************************************)
InitSync ==
    /\ NoVerifyBlock
    /\ input = <<>>
    /\ parsed = NotParsed
    /\ ChannelCreated
    /\ NoDownload
    /\ \E pre \in BOOLEAN, new \in BOOLEAN, acc \in BOOLEAN, chain \in BOOLEAN,
          iter \in BOOLEAN, delete \in BOOLEAN, blocks \in BOOLEAN,
          absent \in SeqsUpTo({"ok", "read_err", "exec_err"}, MaxAbsent) :
        sync = SyncAnswers(pre, new, acc, chain, iter, delete, blocks, absent)
    /\ sync_pc = "start"
    /\ absent_pos = 1
    /\ sync_calls = <<>>
    /\ sync_result = "none"

SpecSync == InitSync /\ [][NextSync]_vars

(***************************************************************************)
(* One SyncBodyEvent sent to DownloadBodyActor, for every answer of the    *)
(* peers.                                                                  *)
(***************************************************************************)
InitDownload ==
    /\ NoVerifyBlock
    /\ input = <<>>
    /\ parsed = NotParsed
    /\ ChannelCreated
    /\ NoSync
    /\ event_peers \in SeqsUpTo(Responses, MaxPeers)
    /\ handler = "called"
    /\ task = [pc |-> "none", idx |-> 1]
    /\ asked = <<>>
    /\ blocks_from = <<>>

SpecDownload == InitDownload /\ [][NextDownload]_vars

(***************************************************************************)
(* Properties.                                                             *)
(***************************************************************************)
Ran(i) == Len(log) >= i /\ log[i].res # Pending

Default == {"Basic", "Consensus", "Full"}

UnclesOf(b) == unwrap_or_default(b.uncles)

\* the calls verify_header of the block made
HeaderCalls == verify_header(verifier, reader, block.header).calls

\* C1: for the Basic, Consensus, Full and Dag verifiers the steps of
\* verify_block run in the order verify_blacklisted_txns, verify_header,
\* verify_body_hash, verify_uncles; a step runs only if every earlier step
\* succeeded; the error returned is that of the first failing step; and the
\* result is VerifiedBlock of the input block iff all four steps succeeded.
C1_StepOrder ==
    verifier # "None" =>
        /\ Len(log) <= 4
        /\ \A i \in 1..Len(log) : log[i].step = Steps[i]
        /\ \A i \in 2..Len(log) : IsOk(log[i - 1].res)
        /\ Len(log) >= 1 => log[1].res = verify_blacklisted_txns(blacklist, block)
        /\ Len(log) >= 2 => log[2].res = verify_header(verifier, reader, block.header).res
        /\ Len(log) >= 3 => log[3].res = verify_body_hash(block)
        /\ pc # "done" => result = [res |-> Pending, verified |-> <<>>]
        /\ pc = "done" =>
            /\ Len(log) >= 1
            /\ IsOk(result.res) <=> (Len(log) = 4 /\ \A i \in 1..4 : IsOk(log[i].res))
            /\ IsOk(result.res) => result.verified = <<block>>
            /\ ~IsOk(result.res) =>
                /\ result.res = log[Len(log)].res
                /\ result.res.kind \in {"VerifyBlockFailed", "Error"}
                /\ result.verified = <<>>

C1_Witness ==
    /\ verifier = "Dag"
    /\ pc = "done"
    /\ Len(log) = 3
    /\ IsOk(log[2].res)
    /\ result.res = VerifyBlockFailed("Body")

\* C2 as claimed: a block whose body hash differs from header.body_hash is
\* rejected by every non-None verifier with category Body.
C2_BodyMismatchIsBody ==
    (verifier # "None" /\ pc = "done"
     /\ body_hash_of(block.body) # block.header.body_hash)
        => result.res = VerifyBlockFailed("Body")

\* C2 amended: such a block is never accepted; the error is of category Body
\* whenever verify_header accepted the header or was not reached, and is
\* verify_header's own error otherwise.
C2_BodyMismatchRejected ==
    (verifier # "None" /\ pc = "done"
     /\ body_hash_of(block.body) # block.header.body_hash)
        => /\ ~IsOk(result.res)
           /\ result.verified = <<>>
           /\ IF Len(log) = 2 /\ ~IsOk(log[2].res)
              THEN result.res = verify_header(verifier, reader, block.header).res
              ELSE result.res = VerifyBlockFailed("Body")

C2_Witness ==
    /\ verifier = "Full"
    /\ pc = "done"
    /\ body_hash_of(block.body) # block.header.body_hash
    /\ Len(log) = 3
    /\ \A i \in 1..Len(block.body) : block.body[i].sender \notin blacklist
    /\ result.res = VerifyBlockFailed("Body")

\* C3 as claimed: BasicVerifier::verify_header rejects with category Header
\* every header whose number is not head.number + 1 (over all u64 head
\* numbers, the largest included) or whose parent_hash is not head.id.
C3_HeightAndParent ==
    (verifier = "Basic" /\ Ran(2)
     /\ (\/ block.header.number # reader.head.number + 1
         \/ block.header.parent_hash # reader.head.id))
        => log[2].res = VerifyBlockFailed("Header")

\* the future-time bound: now + ALLOWED_FUTURE_BLOCKTIME, saturating
FutureBound == IF reader.now + ALLOWED_FUTURE_BLOCKTIME >= MaxU THEN MaxU
               ELSE reader.now + ALLOWED_FUTURE_BLOCKTIME

\* C4: BasicVerifier::verify_header accepts a header only if
\* head.timestamp < header.timestamp <= now + ALLOWED_FUTURE_BLOCKTIME
\* (saturating); a header at or before the head's timestamp, or beyond that
\* bound, is rejected with category Header.
C4_TimestampWindow ==
    (verifier = "Basic" /\ Ran(2)) =>
        /\ IsOk(log[2].res) =>
            /\ reader.head.timestamp < block.header.timestamp
            /\ block.header.timestamp <= FutureBound
        /\ (\/ block.header.timestamp <= reader.head.timestamp
            \/ block.header.timestamp > FutureBound)
                => log[2].res = VerifyBlockFailed("Header")

\* accepted at the bound, the bound being a saturated one
C4_Witness ==
    /\ verifier = "Basic"
    /\ Ran(2)
    /\ IsOk(log[2].res)
    /\ block.header.timestamp = FutureBound
    /\ reader.now + ALLOWED_FUTURE_BLOCKTIME > MaxU

HasRepeat(seq) == \E i, j \in 1..Len(seq) : i < j /\ seq[i] = seq[j]

\* the step verify_uncles of a default strategy has returned
UnclesDone == verifier \in Default /\ Ran(4)

\* the loop of verify_uncles was entered and stopped at uncle_idx with an error
StoppedAtUncle ==
    /\ UnclesDone
    /\ ~IsOk(log[4].res)
    /\ verify_uncles_begin(reader, UnclesOf(block), block.header).go

\* C5 as claimed: a block with two uncle headers of the same id is rejected
\* by the default verify_uncles with category Uncle.
C5_RepeatIsUncle ==
    (UnclesDone /\ HasRepeat([i \in 1..Len(UnclesOf(block)) |-> UnclesOf(block)[i].id]))
        => log[4].res = VerifyBlockFailed("Uncle")

\* C5 amended: such a block is never accepted by the default verify_uncles;
\* the error is of category Uncle unless an uncle examined before the repeat
\* is reached fails its exist_block or fork call or its own verify_header,
\* and then it is that uncle's error.
C5_RepeatRejected ==
    (UnclesDone /\ HasRepeat([i \in 1..Len(UnclesOf(block)) |-> UnclesOf(block)[i].id]))
        => /\ ~IsOk(log[4].res)
           /\ ~IsOk(result.res)
           /\ \/ log[4].res = VerifyBlockFailed("Uncle")
              \/ /\ StoppedAtUncle
                 /\ \A i \in 1..(uncle_idx - 1) :
                        UnclesOf(block)[i].id # UnclesOf(block)[uncle_idx].id
                 /\ \/ /\ log[4].res = OpaqueError("exist_block")
                       /\ "err" \in {reader.exist[UnclesOf(block)[uncle_idx].parent_hash],
                                     reader.exist[UnclesOf(block)[uncle_idx].id]}
                    \/ /\ log[4].res = OpaqueError("fork")
                       /\ ~reader.forks[UnclesOf(block)[uncle_idx].parent_hash].ok
                    \/ /\ reader.forks[UnclesOf(block)[uncle_idx].parent_hash].ok
                       /\ log[4].res =
                            verify_header(verifier,
                                          fork(reader, UnclesOf(block)[uncle_idx].parent_hash),
                                          UnclesOf(block)[uncle_idx]).res

\* the repeat itself is what is rejected: the first occurrence passed
C5_Witness ==
    /\ UnclesDone
    /\ Len(UnclesOf(block)) = 2
    /\ UnclesOf(block)[1] = UnclesOf(block)[2]
    /\ uncle_idx = 2
    /\ uncle_ids = {UnclesOf(block)[1].id}
    /\ log[4].res = VerifyBlockFailed("Uncle")

\* the five conditions of can_be_uncle
UncleConditions(r, u) ==
    /\ r.epoch.start_block_number <= u.number
    /\ u.number < r.epoch.end_block_number
    /\ r.exist[u.parent_hash] = "true"
    /\ r.exist[u.id] = "false"
    /\ u.id \notin r.epoch_uncles
    /\ u.number <= r.head.number

\* C6: can_be_uncle returns true iff its five conditions hold, and the
\* default verify_uncles rejects with category Uncle the uncle for which it
\* returned false.
C6_CanBeUncle ==
    /\ \A i \in 1..Len(UnclesOf(block)) :
        LET u == UnclesOf(block)[i]
            c == can_be_uncle(reader, u)
        IN  /\ (IsOk(c.res) /\ c.value) <=> UncleConditions(reader, u)
            /\ ~IsOk(c.res) => ~c.value
    /\ StoppedAtUncle =>
        LET u == UnclesOf(block)[uncle_idx]
            c == can_be_uncle(reader, u)
        IN  (u.id \notin uncle_ids /\ u.number < block.header.number
             /\ IsOk(c.res) /\ ~c.value)
                => /\ log[4].res = VerifyBlockFailed("Uncle")
                   /\ result.res = VerifyBlockFailed("Uncle")
    /\ (UnclesDone /\ IsOk(log[4].res)) =>
        \A i \in 1..Len(UnclesOf(block)) : UncleConditions(reader, UnclesOf(block)[i])

\* an uncle already recorded in the epoch is turned down
C6_Witness ==
    /\ StoppedAtUncle
    /\ UnclesOf(block)[uncle_idx].id \in reader.epoch_uncles
    /\ UnclesOf(block)[uncle_idx].number < block.header.number
    /\ reader.exist[UnclesOf(block)[uncle_idx].id] = "false"
    /\ reader.exist[UnclesOf(block)[uncle_idx].parent_hash] = "true"
    /\ log[4].res = VerifyBlockFailed("Uncle")

Called(op) == \E i \in 1..Len(calls) : calls[i].op = op

\* C7: DagVerifier::verify_header rejects with category Header, and without
\* a call of has_dag_block or of the consensus strategy, every header whose
\* parents_hash is absent or empty, holds a repeated id at any positions, or
\* does not hold header.parent_hash.
C7_DagParentsShape ==
    (verifier = "Dag" /\ Ran(2)
     /\ LET ps == block.header.parents_hash
        IN  \/ ~ps.some
            \/ Len(ps.v) = 0
            \/ HasRepeat(ps.v)
            \/ \A i \in 1..Len(ps.v) : ps.v[i] # block.header.parent_hash)
        => /\ log[2].res = VerifyBlockFailed("Header")
           /\ result.res = VerifyBlockFailed("Header")
           /\ ~Called("has_dag_block")
           /\ ~Called("strategy.verify")

\* a repeat that is not adjacent in the declared order
C7_Witness ==
    /\ verifier = "Dag"
    /\ Ran(2)
    /\ block.header.parents_hash.v = <<1, 2, 1>>
    /\ block.header.parent_hash = 1
    /\ log[2].res = VerifyBlockFailed("Header")

\* the header passed the two parent checks of DagVerifier::verify_header
PassedParentChecks(r, h) ==
    /\ h.parents_hash.some
    /\ Len(h.parents_hash.v) > 0
    /\ ~HasRepeat(h.parents_hash.v)
    /\ \E i \in 1..Len(h.parents_hash.v) : h.parents_hash.v[i] = h.parent_hash
    /\ r.infos[h.parent_hash].kind = "Some"

\* C8: once the parent checks passed, a declared parent for which
\* has_dag_block answers false or fails makes DagVerifier::verify_header
\* return VerifyBlockFailed of category Header, so the block is not accepted.
C8_DagUnknownParent ==
    (verifier = "Dag" /\ Ran(2) /\ PassedParentChecks(reader, block.header)
     /\ \E i \in 1..Len(block.header.parents_hash.v) :
            reader.dag[block.header.parents_hash.v[i]] \in {"false", "err"})
        => /\ log[2].res = VerifyBlockFailed("Header")
           /\ result.res = VerifyBlockFailed("Header")
           /\ result.verified = <<>>
           /\ ~Called("strategy.verify")

\* a storage error of has_dag_block, every other declared parent being known
C8_Witness ==
    /\ verifier = "Dag"
    /\ Ran(2)
    /\ PassedParentChecks(reader, block.header)
    /\ Len(block.header.parents_hash.v) = 2
    /\ \E i \in 1..2 : reader.dag[block.header.parents_hash.v[i]] = "err"
    /\ \A i \in 1..2 : reader.dag[block.header.parents_hash.v[i]] \in {"true", "err"}
    /\ result.res = VerifyBlockFailed("Header")

Fields == {"Header", "Body", "Uncle", "Consensus"}

\* C9 as claimed: every error returned by verify_block of the Basic,
\* Consensus, Full and Dag verifiers is VerifyBlockFailed with a category
\* among Header, Body, Uncle, Consensus.
C9_AlwaysVerifyBlockFailed ==
    (verifier # "None" /\ pc = "done" /\ ~IsOk(result.res))
        => /\ result.res.kind = "VerifyBlockFailed"
           /\ result.res.field \in Fields

\* C9 amended: every error returned is either VerifyBlockFailed with one of
\* the four categories or the error of the reader call made last: a failed
\* get_block_info, check_chain_type, exist_block or fork, a head without
\* block info in BasicVerifier, or a strategy error that is no
\* ConsensusVerifyError.
C9_ErrorsReturned ==
    (verifier # "None" /\ pc = "done" /\ ~IsOk(result.res))
        => \/ /\ result.res.kind = "VerifyBlockFailed"
              /\ result.res.field \in Fields
           \/ /\ result.res.kind = "Error"
              /\ Len(calls) > 0
              /\ LET c == calls[Len(calls)]
                 IN  \/ /\ c.op = "get_block_info"
                        /\ reader.infos[c.arg].kind = "Err"
                        /\ result.res = OpaqueError("get_block_info")
                     \/ /\ c.op = "get_block_info"
                        /\ reader.infos[c.arg].kind = "None"
                        /\ verifier \in {"Basic", "Full"}
                        /\ result.res = OpaqueError("Can not find block info")
                     \/ /\ c.op = "check_chain_type"
                        /\ reader.chain_type = "Err"
                     \/ /\ c.op = "exist_block"
                        /\ reader.exist[c.arg] = "err"
                     \/ /\ c.op = "fork"
                        /\ ~reader.forks[c.arg].ok
                     \/ /\ c.op = "strategy.verify"
                        /\ reader.strategy[c.arg] = "Other"

C9_Witness ==
    /\ verifier = "Full"
    /\ pc = "done"
    /\ result.res = OpaqueError("Can not find block info")
    /\ reader.infos[reader.head.id].kind = "None"

\* C10: at the height epoch.end_block_number a non-empty uncle list is
\* rejected by the default verify_uncles with category Uncle before any
\* uncle is examined; an empty list is accepted at every height; in both
\* cases the reader is asked for the epoch only.
C10_EpochEndUncles ==
    (verifier \in Default /\ Len(log) >= 4) =>
        /\ (/\ block.header.number = reader.epoch.end_block_number
            /\ Len(UnclesOf(block)) > 0)
                => /\ log[4].res = VerifyBlockFailed("Uncle")
                   /\ result.res = VerifyBlockFailed("Uncle")
                   /\ calls = HeaderCalls \o <<Call("epoch", 0)>>
                   /\ uncle_idx = 1
                   /\ uncle_ids = {}
        /\ Len(UnclesOf(block)) = 0
                => /\ log[4].res = Ok
                   /\ result = [res |-> Ok, verified |-> <<block>>]
                   /\ calls = HeaderCalls \o <<Call("epoch", 0)>>

\* uncles that would each pass, on the last block of the epoch
C10_Witness ==
    /\ verifier \in Default
    /\ Ran(4)
    /\ block.header.number = reader.epoch.end_block_number
    /\ Len(UnclesOf(block)) = 2
    /\ \A i \in 1..2 : UncleConditions(reader, UnclesOf(block)[i])
    /\ UnclesOf(block)[1].id # UnclesOf(block)[2].id
    /\ result.res = VerifyBlockFailed("Uncle")

\* C11: a block with more uncles than epoch.max_uncles_per_block is rejected
\* by the default verify_uncles with category Uncle, before any uncle is
\* examined and before any forked reader is built.
C11_TooManyUncles ==
    (verifier \in Default /\ Len(log) >= 4
     /\ Len(UnclesOf(block)) > reader.epoch.max_uncles_per_block)
        => /\ log[4].res = VerifyBlockFailed("Uncle")
           /\ result.res = VerifyBlockFailed("Uncle")
           /\ pc = "done"
           /\ calls = HeaderCalls \o <<Call("epoch", 0)>>
           /\ ~Called("fork")
           /\ ~Called("exist_block")
           /\ uncle_idx = 1
           /\ uncle_ids = {}

\* two uncles that would each pass, one more than allowed, not at the epoch end
C11_Witness ==
    /\ verifier \in Default
    /\ Ran(4)
    /\ reader.epoch.max_uncles_per_block = 1
    /\ Len(UnclesOf(block)) = 2
    /\ block.header.number # reader.epoch.end_block_number
    /\ \A i \in 1..2 : UncleConditions(reader, UnclesOf(block)[i])
    /\ UnclesOf(block)[1].id # UnclesOf(block)[2].id
    /\ result.res = VerifyBlockFailed("Uncle")

\* C12: NoneVerifier::verify_block returns VerifiedBlock(B) for every reader
\* and block B, whatever its senders, body hash, header and uncles, and
\* calls nothing on the reader.
C12_NoneAccepts ==
    verifier = "None" =>
        /\ pc \in {"start", "done"}
        /\ log = <<>>
        /\ calls = <<>>
        /\ pc = "done" => result = [res |-> Ok, verified |-> <<block>>]

\* a block that every step of the other strategies would turn down
C12_Witness ==
    /\ verifier = "None"
    /\ pc = "done"
    /\ ~IsOk(verify_blacklisted_txns(blacklist, block))
    /\ ~IsOk(verify_body_hash(block))
    /\ ~IsOk(Basic_verify_header(reader, block.header).res)
    /\ ~IsOk(Dag_verify_header(reader, block.header).res)
    /\ HasRepeat([i \in 1..Len(UnclesOf(block)) |-> UnclesOf(block)[i].id])
    /\ result = [res |-> Ok, verified |-> <<block>>]

\* C13: ConsensusVerifier::verify_header returns Ok exactly when the epoch's
\* strategy accepts the header; a ConsensusVerifyError of the strategy comes
\* back as VerifyBlockFailed of category Consensus, any other strategy error
\* comes back as it is, not as a VerifyBlockFailed.
C13_ConsensusVerdict ==
    (verifier = "Consensus" /\ Ran(2)) =>
        LET verdict == reader.strategy[block.header.id]
        IN  /\ IsOk(log[2].res) <=> verdict = "Ok"
            /\ verdict = "ConsensusVerifyError"
                => log[2].res = VerifyBlockFailed("Consensus")
            /\ verdict = "Other"
                => /\ log[2].res = OpaqueError("strategy.verify")
                   /\ log[2].res.kind # "VerifyBlockFailed"
                   /\ result.res = log[2].res
            /\ calls[1] = Call("epoch", 0)
            /\ calls[2] = Call("strategy.verify", block.header.id)

C13_Witness ==
    /\ verifier = "Consensus"
    /\ Ran(2)
    /\ reader.strategy[block.header.id] = "Other"
    /\ pc = "done"
    /\ result.res = OpaqueError("strategy.verify")

\* C14: FullVerifier::verify_header succeeds iff BasicVerifier's and
\* ConsensusVerifier's verify_header both succeed; when the Basic check
\* fails its error is returned and the consensus strategy is not invoked.
C14_FullIsBasicThenConsensus ==
    (verifier = "Full" /\ Ran(2)) =>
        LET basic == Basic_verify_header(reader, block.header)
            cons  == Consensus_verify_header(reader, block.header)
        IN  /\ IsOk(log[2].res) <=> (IsOk(basic.res) /\ IsOk(cons.res))
            /\ ~IsOk(basic.res)
                => /\ log[2].res = basic.res
                   /\ result.res = basic.res
                   /\ calls = basic.calls
                   /\ ~Called("strategy.verify")
            /\ IsOk(basic.res) => log[2].res = cons.res

\* the strategy would have refused too, yet it is the Basic error that returns
C14_Witness ==
    /\ verifier = "Full"
    /\ Ran(2)
    /\ reader.strategy[block.header.id] = "ConsensusVerifyError"
    /\ ~IsOk(Basic_verify_header(reader, block.header).res)
    /\ result.res = VerifyBlockFailed("Header")
    /\ ~Called("strategy.verify")

IsInfix(a, b) ==
    \E k \in 0..(Len(b) - Len(a)) : SubSeq(b, k + 1, k + Len(a)) = a

\* C16: Verifier::from_str maps "basic", "consensus", "full", "none" to
\* Basic, Consensus, Full, None, and fails for every other string with a
\* message that contains that string; Verifier::variants lists exactly the
\* four accepted strings.
C16_FromStr ==
    parsed.done =>
        /\ input = str_basic => parsed = ParsedOk("Basic")
        /\ input = str_consensus => parsed = ParsedOk("Consensus")
        /\ input = str_full => parsed = ParsedOk("Full")
        /\ input = str_none => parsed = ParsedOk("None")
        /\ input \notin {str_basic, str_consensus, str_full, str_none}
            => /\ ~parsed.ok
               /\ IsInfix(input, parsed.msg)
               /\ Len(parsed.msg) > Len(input)
        /\ parsed.ok <=> \E i \in 1..Len(variants) : variants[i] = input
        /\ Len(variants) = 4
        /\ Cardinality({variants[i] : i \in 1..Len(variants)}) = 4

\* "Basic", the first letter in upper case, is refused
C16_Witness ==
    /\ parsed.done
    /\ input = <<"B", "a", "s", "i", "c">>
    /\ ~parsed.ok
    /\ IsInfix(input, parsed.msg)

\* C17: no step of verify_block, whatever the verifier and whether it
\* accepts or rejects, changes the reader: its head, epoch, existing blocks,
\* epoch uncles and block infos after the step are those before it.
C17_ReaderUnchanged ==
    [][/\ reader'.head = reader.head
       /\ reader'.epoch = reader.epoch
       /\ reader'.exist = reader.exist
       /\ reader'.epoch_uncles = reader.epoch_uncles
       /\ reader'.infos = reader.infos
       /\ reader' = reader]_vars

\* an uncle was verified on a fork of the reader, on a branch whose head is
\* not the reader's, and verify_block has returned
C17_Witness ==
    /\ pc = "done"
    /\ Called("fork")
    /\ \E i \in 1..Len(calls) :
        /\ calls[i].op = "fork"
        /\ fork(reader, calls[i].arg).head # reader.head
    /\ IsOk(result.res)

\* C18: DagVerifier::verify_uncles succeeds whatever the reader, the header
\* and the uncles are and calls nothing on the reader, so a block that passed
\* the blacklist, header and body-hash steps of DagVerifier is accepted.
C18_DagUnclesNoOp ==
    /\ (verifier = "Dag" /\ pc = "uncles") => ENABLED Dag_verify_uncles
    /\ (verifier = "Dag" /\ Ran(4))
        => /\ log[4] = Logged("verify_uncles", Ok)
           /\ pc = "done"
           /\ result = [res |-> Ok, verified |-> <<block>>]
           /\ calls = HeaderCalls
           /\ \A i \in 1..3 : IsOk(log[i].res)

\* a Dag block accepted with a repeated uncle, more uncles than the epoch
\* allows, at the last height of the epoch, whose uncle cannot be an uncle
C18_Witness ==
    /\ verifier = "Dag"
    /\ pc = "done"
    /\ IsOk(result.res)
    /\ HasRepeat([i \in 1..Len(UnclesOf(block)) |-> UnclesOf(block)[i].id])
    /\ ~UnclesWithinLimit(reader.epoch, UnclesOf(block))
    /\ ~UnclesNotOnSwitchEpoch(reader.epoch, block.header, UnclesOf(block))
    /\ \E i \in 1..Len(UnclesOf(block)) : ~can_be_uncle(reader, UnclesOf(block)[i]).value

HasBlacklistedTxn ==
    \E i \in 1..Len(block.body) :
        is_blacklisted(blacklist, block.body[i], block.header.number)

\* C19: verify_block of Basic, Consensus, Full and Dag rejects a block holding
\* a transaction whose sender is blacklisted at the block's number, whatever
\* its header, body hash and uncles: the first step fails with category Body,
\* no other step runs and no call is made on the reader.
C19_BlacklistedRejected ==
    (verifier # "None" /\ Len(log) >= 1 /\ HasBlacklistedTxn)
        => /\ log = <<Logged("verify_blacklisted_txns", VerifyBlockFailed("Body"))>>
           /\ pc = "done"
           /\ result = [res |-> VerifyBlockFailed("Body"), verified |-> <<>>]
           /\ calls = <<>>

\* rejected on its second transaction only, while its header is refused, its
\* body hash is wrong and its uncles are repeated
C19_Witness ==
    /\ verifier \in Default
    /\ pc = "done"
    /\ result.res = VerifyBlockFailed("Body")
    /\ Len(block.body) = 2
    /\ ~is_blacklisted(blacklist, block.body[1], block.header.number)
    /\ is_blacklisted(blacklist, block.body[2], block.header.number)
    /\ ~IsOk(verify_header(verifier, reader, block.header).res)
    /\ ~IsOk(verify_body_hash(block))
    /\ HasRepeat([i \in 1..Len(UnclesOf(block)) |-> UnclesOf(block)[i].id])

\* the header is DAG-shaped or check_chain_type() answers Dag
DagShaped(r, h) == ~NoParentsHash(h) \/ r.chain_type = "Dag"

\* checks 1 to 7 of BasicVerifier::verify_header pass
OtherBasicChecksPass(r, h) ==
    /\ HeightContinuity(status_head(r), h)
    /\ ParentLinkage(status_head(r), h)
    /\ TimestampAfterParent(status_head(r), h)
    /\ TimestampNotTooNew(r.now, h)
    /\ EpochWindow(r.epoch, h)
    /\ GasBound(r.epoch, h)
    /\ get_block_info(r, status_head(r).id).kind = "Some"
    /\ AccumulatorContinuity(get_block_info(r, status_head(r).id), h)

BasicRan == verifier \in {"Basic", "Full"} /\ Ran(2)

\* C20 as claimed: BasicVerifier::verify_header rejects with category Header
\* every header that is DAG-shaped and every header presented while
\* check_chain_type() is Dag.
C20_DagShapedIsHeader ==
    (BasicRan /\ DagShaped(reader, block.header))
        => log[2].res = VerifyBlockFailed("Header")

\* C20: BasicVerifier::verify_header never accepts a header with a non-empty
\* parents_hash or one presented while check_chain_type() is not Single; when
\* the other Basic checks pass the rejection is category Header if
\* check_chain_type() answers and the error of check_chain_type() if it
\* fails; a failed or empty get_block_info of the head is returned as it is,
\* before check_chain_type() is called; with the other checks passed,
\* BasicVerifier accepts exactly when the chain type is Single and
\* parents_hash is absent or empty.
C20_DagShapedRejected ==
    BasicRan =>
        LET h   == block.header
            res == Basic_verify_header(reader, h)
        IN  /\ verifier = "Basic" => log[2].res = res.res
            /\ ~IsOk(res.res) => log[2].res = res.res
            /\ (~NoParentsHash(h) \/ reader.chain_type # "Single") => ~IsOk(log[2].res)
            /\ (DagShaped(reader, h) /\ OtherBasicChecksPass(reader, h))
                => /\ reader.chain_type # "Err"
                        => res.res = VerifyBlockFailed("Header")
                   /\ reader.chain_type = "Err"
                        => res.res = OpaqueError("check_chain_type")
                   /\ res.calls[Len(res.calls)] = Call("check_chain_type", 0)
            /\ (DagShaped(reader, h) /\ res.res.kind = "Error"
                /\ res.res # OpaqueError("check_chain_type"))
                => /\ get_block_info(reader, status_head(reader).id).kind # "Some"
                   /\ \A i \in 1..Len(res.calls) : res.calls[i].op # "check_chain_type"
            /\ DagShaped(reader, h)
                => res.res.kind \in {"VerifyBlockFailed", "Error"}
                   /\ (res.res.kind = "VerifyBlockFailed" => res.res = VerifyBlockFailed("Header"))
            /\ OtherBasicChecksPass(reader, h)
                => (IsOk(res.res) <=> (reader.chain_type = "Single" /\ NoParentsHash(h)))

\* a header with one declared parent on a Single chain, every other Basic
\* check passed, refused with category Header by the last check
C20_Witness ==
    /\ verifier = "Basic"
    /\ Ran(2)
    /\ OtherBasicChecksPass(reader, block.header)
    /\ reader.chain_type = "Single"
    /\ block.header.parents_hash = Some(<<1>>)
    /\ log[2].res = VerifyBlockFailed("Header")
    /\ pc = "done"

\* the eight conditions of BasicVerifier::verify_header, in the order of the code
BasicConditions(r, h) ==
    <<HeightContinuity(status_head(r), h),
      ParentLinkage(status_head(r), h),
      TimestampAfterParent(status_head(r), h),
      TimestampNotTooNew(r.now, h),
      EpochWindow(r.epoch, h),
      GasBound(r.epoch, h),
      /\ get_block_info(r, status_head(r).id).kind = "Some"
      /\ AccumulatorContinuity(get_block_info(r, status_head(r).id), h),
      SingleChainShape(r.chain_type, h)>>

Violated(r, h) == {i \in 1..8 : ~BasicConditions(r, h)[i]}

FirstViolated(r, h) ==
    CHOOSE i \in Violated(r, h) : \A j \in Violated(r, h) : i <= j

\* what the check numbered i returns when it is the one that fails
ErrorOfCheck(r, i) ==
    IF i = 7 /\ get_block_info(r, status_head(r).id).kind = "Err"
        THEN OpaqueError("get_block_info")
    ELSE IF i = 7 /\ get_block_info(r, status_head(r).id).kind = "None"
        THEN OpaqueError("Can not find block info")
    ELSE IF i = 8 /\ r.chain_type = "Err" THEN OpaqueError("check_chain_type")
    ELSE VerifyBlockFailed("Header")

\* verify_block of BasicVerifier is past verify_header and not yet in verify_uncles
BasicHeaderDone == verifier = "Basic" /\ Ran(2) /\ Len(log) <= 3

\* C21: BasicVerifier::verify_header returns Ok iff its eight conditions hold;
\* otherwise it returns the error of the earliest violated one, and it calls
\* get_block_info only after checks 1 to 6 passed and check_chain_type only
\* after checks 1 to 7 passed.
C21_BasicEightChecks ==
    BasicHeaderDone =>
        LET h == block.header
            V == Violated(reader, h)
        IN  /\ IsOk(log[2].res) <=> V = {}
            /\ V # {} => log[2].res = ErrorOfCheck(reader, FirstViolated(reader, h))
            /\ Called("get_block_info") <=> (V \cap (1..6) = {})
            /\ Called("check_chain_type") <=> (V \cap (1..7) = {})
            /\ Called("status")

\* the height and the timestamp are wrong while the head's block info cannot
\* be read: the error is the height's, and no block info was asked for
C21_Witness ==
    /\ BasicHeaderDone
    /\ {1, 3, 7} \subseteq Violated(reader, block.header)
    /\ get_block_info(reader, status_head(reader).id).kind = "Err"
    /\ log[2].res = VerifyBlockFailed("Header")
    /\ ~Called("get_block_info")

\* the header check of uncle u under the strategy in use, on the reader
\* forked at u's parent
OnFork(u) == verify_header(verifier, fork(reader, u.parent_hash), u)

\* uncle u passed the repeat, number and can_be_uncle checks of the loop
PassedUncleChecks(u, seen) ==
    /\ u.id \notin seen
    /\ u.number < block.header.number
    /\ IsOk(can_be_uncle(reader, u).res)
    /\ can_be_uncle(reader, u).value

\* C22: when the default verify_uncles accepts a non-empty list, every uncle is
\* below the block's height, can be an uncle, and passed the strategy's
\* verify_header on the reader forked at its parent; when the fork or that
\* header check fails, its error is what verify_uncles returns, never
\* category Uncle.
C22_UnclesOnFork ==
    /\ (UnclesDone /\ IsOk(log[4].res) /\ Len(UnclesOf(block)) > 0)
        => \A i \in 1..Len(UnclesOf(block)) :
            LET u == UnclesOf(block)[i]
            IN  /\ u.number < block.header.number
                /\ IsOk(can_be_uncle(reader, u).res) /\ can_be_uncle(reader, u).value
                /\ reader.forks[u.parent_hash].ok
                /\ IsOk(OnFork(u).res)
    /\ (StoppedAtUncle /\ PassedUncleChecks(UnclesOf(block)[uncle_idx], uncle_ids))
        => LET u == UnclesOf(block)[uncle_idx]
           IN  /\ ~reader.forks[u.parent_hash].ok => log[4].res = OpaqueError("fork")
               /\ reader.forks[u.parent_hash].ok => log[4].res = OnFork(u).res
               /\ log[4].res # VerifyBlockFailed("Uncle")
               /\ result.res = log[4].res

\* two uncles accepted by Basic or Full whose headers the current head would
\* refuse: they were verified on the fork at their parent
C22_Witness ==
    /\ UnclesDone
    /\ verifier \in {"Basic", "Full"}
    /\ IsOk(result.res)
    /\ Len(UnclesOf(block)) = 2
    /\ \A i \in 1..2 : ~IsOk(verify_header(verifier, reader, UnclesOf(block)[i]).res)

IsFork(c) == c.op = "fork"

\* the fork calls made so far, in the order they were made
ForkCalls == SelectSeq(calls, IsFork)

\* C23: the default verify_uncles takes the uncles one at a time in list
\* order; fork is called once for each uncle that passed the repeat, number
\* and can_be_uncle checks, at that uncle's parent, and for no uncle after the
\* first failing one, so there are at most as many fork calls as uncles and at
\* most epoch.max_uncles_per_block.
C23_ForkOncePerUncle ==
    /\ [](verifier \in Default =>
            /\ Len(ForkCalls) <= Len(UnclesOf(block))
            /\ Len(ForkCalls) <= reader.epoch.max_uncles_per_block
            /\ \A i \in 1..Len(ForkCalls) :
                ForkCalls[i].arg = UnclesOf(block)[i].parent_hash
            /\ pc = "uncle_loop" => Len(ForkCalls) = uncle_idx - 1
            /\ (UnclesDone /\ IsOk(log[4].res)) => Len(ForkCalls) = Len(UnclesOf(block))
            /\ StoppedAtUncle
                => Len(ForkCalls) =
                    IF PassedUncleChecks(UnclesOf(block)[uncle_idx], uncle_ids)
                    THEN uncle_idx ELSE uncle_idx - 1)
    /\ [][/\ uncle_idx' \in {uncle_idx, uncle_idx + 1}
          /\ Len(ForkCalls') <= Len(ForkCalls) + 1
          /\ pc = "done" => calls' = calls]_vars

\* the first of two uncles failed its header check on the fork; the second,
\* which would have passed every check, was never looked at
C23_Witness ==
    /\ StoppedAtUncle
    /\ uncle_idx = 1
    /\ Len(UnclesOf(block)) = 2
    /\ Len(ForkCalls) = 1
    /\ PassedUncleChecks(UnclesOf(block)[2], {UnclesOf(block)[1].id})
    /\ reader.forks[UnclesOf(block)[2].parent_hash].ok
    /\ IsOk(OnFork(UnclesOf(block)[2]).res)

\* checks 1 to 6 of BasicVerifier::verify_header pass
FirstSixPass(r, h) == Violated(r, h) \cap (1..6) = {}

\* can_be_uncle(r, u) reaches an exist_block call that fails
ExistBlockFails(r, u) ==
    /\ r.epoch.start_block_number <= u.number
    /\ r.epoch.end_block_number > u.number
    /\ \/ r.exist[u.parent_hash] = "err"
       \/ r.exist[u.parent_hash] = "true" /\ r.exist[u.id] = "err"

\* C24: a reader failure is returned as an opaque error, not as a
\* VerifyBlockFailed: get_block_info of the head answering None ("Can not
\* find block info") or failing once checks 1 to 6 of BasicVerifier passed,
\* get_block_info failing in DagVerifier::verify_header, and exist_block
\* failing in can_be_uncle.
C24_ReaderErrorsOpaque ==
    /\ (BasicRan /\ FirstSixPass(reader, block.header)
        /\ get_block_info(reader, status_head(reader).id).kind # "Some")
        => /\ log[2].res.kind = "Error"
           /\ get_block_info(reader, status_head(reader).id).kind = "None"
                => log[2].res.field = "Can not find block info"
           /\ result.res = log[2].res
           /\ pc = "done"
    /\ (verifier = "Dag" /\ Ran(2) /\ ParentsShape(block.header)
        /\ contains(parents_hash_to_check(block.header), block.header.parent_hash)
        /\ get_block_info(reader, block.header.parent_hash).kind = "Err")
        => /\ log[2].res.kind = "Error"
           /\ result.res = log[2].res
    /\ (StoppedAtUncle
        /\ UnclesOf(block)[uncle_idx].id \notin uncle_ids
        /\ UnclesOf(block)[uncle_idx].number < block.header.number
        /\ ExistBlockFails(reader, UnclesOf(block)[uncle_idx]))
        => /\ log[4].res.kind = "Error"
           /\ result.res = log[4].res

\* BasicVerifier found no block info for the head after six passed checks
C24_Witness ==
    /\ verifier = "Basic"
    /\ Ran(2)
    /\ FirstSixPass(reader, block.header)
    /\ get_block_info(reader, status_head(reader).id).kind = "None"
    /\ result.res.kind = "Error"
    /\ result.res.field = "Can not find block info"

\* the conditions of DagVerifier::verify_header
DagConditions(r, h) ==
    /\ h.parents_hash.some
    /\ Len(h.parents_hash.v) > 0
    /\ ~HasRepeat(h.parents_hash.v)
    /\ \E i \in 1..Len(h.parents_hash.v) : h.parents_hash.v[i] = h.parent_hash
    /\ r.infos[h.parent_hash].kind = "Some"
    /\ \A i \in 1..Len(h.parents_hash.v) : r.dag[h.parents_hash.v[i]] = "true"

\* C25: DagVerifier::verify_header accepts iff parents_hash is non-empty and
\* free of repeats, holds parent_hash, the parent has block info, every
\* declared parent is a DAG block and the consensus strategy accepts; the
\* strategy is called only after the parent checks passed, and nothing of the
\* head's number, time, epoch window, gas limit, accumulator root or chain
\* type is looked at.
C25_DagHeader ==
    (verifier = "Dag" /\ Ran(2)) =>
        /\ IsOk(log[2].res)
            <=> (DagConditions(reader, block.header)
                 /\ reader.strategy[block.header.id] = "Ok")
        /\ Called("strategy.verify") <=> DagConditions(reader, block.header)
        /\ Called("strategy.verify")
            => /\ calls[Len(calls)].op = "strategy.verify"
               /\ Cardinality({i \in 1..Len(calls) : calls[i].op = "strategy.verify"}) = 1
        /\ \A i \in 1..Len(calls) :
            calls[i].op \in {"get_block_info", "has_dag_block", "epoch", "strategy.verify"}

\* a DAG header accepted although its number, parent, timestamp, epoch
\* window, gas, accumulator root and chain type would fail BasicVerifier
C25_Witness ==
    /\ verifier = "Dag"
    /\ Ran(2)
    /\ IsOk(log[2].res)
    /\ {1, 2, 3, 5, 6, 7, 8} \subseteq Violated(reader, block.header)
    /\ Len(block.header.parents_hash.v) = 2

SendersIdle == \A s \in Senders : senders[s] = "idle"

\* C26 as claimed: every message put into the channel by a send operation of
\* TracingUnboundedSender has increased the "send" counter by one, a failed
\* send has increased nothing, and "received" never exceeds "send".
C26_EverySendCounted ==
    SendersIdle =>
        /\ counter.send = sends.ok
        /\ counter.received <= counter.send

\* what one call of try_next or poll_next does to the queue and the counters
TakesOne ==
    IF Len(chan.queue) > 0
    THEN /\ chan'.queue = Tail(chan.queue)
         /\ counter' = [counter EXCEPT !.received = @ + 1]
         /\ last' = "Some"
    ELSE /\ chan'.queue = chan.queue
         /\ counter' = counter
         /\ last' \in {"None", "Err", "Pending"}

C28_NothingUncounted ==
    (last \in {"closed", "dropped"} /\ rx.pc \in {"idle", "dropped"})
        => counter.send <= counter.received

CountOf(seq, x) == Cardinality({i \in 1..Len(seq) : seq[i] = x})

\* the round at which the absent-block loop stops: the first one that does
\* not read and execute its blocks, or the read past the last stored block
StopRound(absent) ==
    CHOOSE k \in 1..(Len(absent) + 1) :
        /\ \A i \in 1..(k - 1) : absent[i] = "ok"
        /\ k <= Len(absent) => absent[k] # "ok"

LoopLeft == sync_pc \in {"delete", "generate", "block_sync"}
            \/ (sync_pc = "done" /\ CountOf(sync_calls, "iter_at_first") = 1 /\ sync.iter_ok)

Generated == CountOf(sync_calls, "TaskGenerator::new(block_sync_task)") = 1

\* C29: in do_sync the block-sync stage is built only after the accumulator
\* stage gave its result; the absent-block loop stops at the first read that
\* returns no block or at the first error of read_local_absent_block or
\* execute_absent_block, and no such error is returned by do_sync; after the
\* loop delete_all_dag_sync_block is called, and once the accumulator stage
\* succeeded the block-sync task is generated unless BlockChain::new,
\* iter_at_first or delete_all_dag_sync_block fails.
C29_AbsentLoop ==
    /\ \A i \in 1..Len(sync_calls) :
        sync_calls[i] = "BlockSyncTask::new"
            => \E j \in 1..(i - 1) : sync_calls[j] = "accumulator: Ok"
    /\ LoopLeft =>
        LET k == StopRound(sync.absent)
        IN  /\ CountOf(sync_calls, "read_local_absent_block") = k
            /\ CountOf(sync_calls, "execute_absent_block") =
                IF k <= Len(sync.absent) /\ sync.absent[k] = "read_err" THEN k - 1
                ELSE IF k <= Len(sync.absent) THEN k
                ELSE k - 1
            /\ absent_pos = k
    /\ sync_result \notin {SyncErr("read_local_absent_block"), SyncErr("execute_absent_block")}
    /\ (LoopLeft /\ sync_pc # "delete")
        => CountOf(sync_calls, "delete_all_dag_sync_block") = 1
    /\ (sync_pc = "done" /\ CountOf(sync_calls, "accumulator: Ok") = 1)
        => /\ Generated <=> (sync.chain_ok /\ sync.iter_ok /\ sync.delete_ok)
           /\ sync_result = IF ~sync.chain_ok THEN SyncErr("BlockChain::new")
                            ELSE IF ~sync.iter_ok THEN SyncErr("iter_at_first")
                            ELSE IF ~sync.delete_ok THEN SyncErr("delete_all_dag_sync_block")
                            ELSE IF ~sync.blocks_ok THEN SyncErr("block sync")
                            ELSE "Ok"
    /\ Generated => CountOf(sync_calls, "accumulator: Ok") = 1

\* the second read failed: the third stored batch was never read, the store
\* was cleared, the block-sync task was generated and do_sync returned Ok
C29_Witness ==
    /\ sync_pc = "done"
    /\ sync_result = "Ok"
    /\ sync.absent = <<"ok", "read_err", "ok">>
    /\ CountOf(sync_calls, "read_local_absent_block") = 2
    /\ CountOf(sync_calls, "execute_absent_block") = 1
    /\ CountOf(sync_calls, "delete_all_dag_sync_block") = 1
    /\ Generated

\* the first peer of event.peers that answers BatchHeaderAndBodyMsg, if the
\* task gets to it: every peer before it answered another response
FirstWithBodies(i) ==
    /\ i \in 1..Len(event_peers)
    /\ event_peers[i] = "BatchHeaderAndBodyMsg"
    /\ \A j \in 1..(i - 1) : event_peers[j] = "Other"

\* C30: the handler of SyncBodyEvent has returned Ok before any peer is
\* asked; the task asks the peers one at a time in the order of event.peers,
\* goes to the next peer only after a response that is no
\* BatchHeaderAndBodyMsg, calls do_blocks at most once, with the bodies of the
\* first peer that answered BatchHeaderAndBodyMsg, and asks no peer after it.
C30_BodiesFromFirstPeer ==
    /\ (Len(asked) > 0 \/ task.pc # "none") => handler = "Ok"
    /\ asked = [i \in 1..Len(asked) |-> i]
    /\ Len(asked) <= Len(event_peers)
    /\ \A i \in 1..(Len(asked) - 1) : event_peers[i] = "Other"
    /\ task.pc = "awaiting" => Len(asked) = task.idx
    /\ Len(blocks_from) <= 1
    /\ blocks_from # <<>>
        => /\ FirstWithBodies(blocks_from[1])
           /\ Len(asked) = blocks_from[1]
           /\ task.pc = "finished"
    /\ (task.pc = "finished" /\ blocks_from = <<>>)
        => /\ Len(asked) = Len(event_peers)
           /\ \A i \in 1..Len(event_peers) : event_peers[i] = "Other"
    /\ (task.pc = "finished" /\ \E i \in 1..Len(event_peers) : FirstWithBodies(i))
        => blocks_from # <<>>

\* the second of three peers answered with the bodies: do_blocks ran once and
\* the third peer, which would also have answered with bodies, was not asked
C30_Witness ==
    /\ handler = "Ok"
    /\ task.pc = "finished"
    /\ event_peers = <<"Other", "BatchHeaderAndBodyMsg", "BatchHeaderAndBodyMsg">>
    /\ asked = <<1, 2>>
    /\ blocks_from = <<2>>

====
